---------------------------- MODULE Spec2Model ----------------------------
(***************************************************************************)
(* x402 on NEAR: the seller's GET /weather handler, the facilitator's      *)
(* POST /verify and POST /settle handlers and verifyPayment, modelled from *)
(* the TypeScript sources.                                                 *)
(*                                                                         *)
(* Strings whose content is inspected character by character (amounts) are *)
(* sequences of one-character strings; account ids and network names are   *)
(* only ever compared with ===, so they are plain strings.                 *)
(* BigInt values are arbitrary-precision: a sign and a canonical sequence  *)
(* of decimal digits, so no integer of the model is cut to a machine word. *)
(***************************************************************************)
EXTENDS Integers, Sequences, FiniteSets, TLC

(***************************************************************************)
(* Bounds of the model.                                                    *)
(***************************************************************************)
MaxActions == 2
MaxRequests == 2

(***************************************************************************)
(* Decimal digit sequences (most significant digit first).                 *)
(***************************************************************************)
DigitChars == {"0", "1", "2", "3", "4", "5", "6", "7", "8", "9"}

DigitVal(c) ==
    CASE c = "0" -> 0 [] c = "1" -> 1 [] c = "2" -> 2 [] c = "3" -> 3
      [] c = "4" -> 4 [] c = "5" -> 5 [] c = "6" -> 6 [] c = "7" -> 7
      [] c = "8" -> 8 [] c = "9" -> 9

WhiteSpaceChars == {" "}

AllDigits(s) == \A i \in 1..Len(s) : s[i] \in DigitChars

RECURSIVE StripLeadingZeros(_)
StripLeadingZeros(s) ==
    IF s = <<>> THEN <<>>
    ELSE IF s[1] = "0" THEN StripLeadingZeros(Tail(s))
    ELSE s

RECURSIVE TrimLeft(_)
TrimLeft(s) ==
    IF s = <<>> THEN <<>>
    ELSE IF s[1] \in WhiteSpaceChars THEN TrimLeft(Tail(s))
    ELSE s

RECURSIVE TrimRight(_)
TrimRight(s) ==
    IF s = <<>> THEN <<>>
    ELSE IF s[Len(s)] \in WhiteSpaceChars THEN TrimRight(SubSeq(s, 1, Len(s) - 1))
    ELSE s

Trim(s) == TrimRight(TrimLeft(s))

(* magnitude comparison of two canonical digit sequences *)
RECURSIVE LexLess(_, _)
LexLess(a, b) ==
    IF a = <<>> THEN FALSE
    ELSE IF a[1] # b[1] THEN DigitVal(a[1]) < DigitVal(b[1])
    ELSE LexLess(Tail(a), Tail(b))

MagLess(a, b) ==
    IF Len(a) # Len(b) THEN Len(a) < Len(b) ELSE LexLess(a, b)

DigitChar(n) ==
    CASE n = 0 -> "0" [] n = 1 -> "1" [] n = 2 -> "2" [] n = 3 -> "3"
      [] n = 4 -> "4" [] n = 5 -> "5" [] n = 6 -> "6" [] n = 7 -> "7"
      [] n = 8 -> "8" [] n = 9 -> "9"

(* a + 1 on a canonical digit sequence *)
RECURSIVE MagSucc(_)
MagSucc(a) ==
    IF a = <<>> THEN <<"1">>
    ELSE IF a[Len(a)] = "9"
         THEN Append(MagSucc(SubSeq(a, 1, Len(a) - 1)), "0")
         ELSE Append(SubSeq(a, 1, Len(a) - 1), DigitChar(DigitVal(a[Len(a)]) + 1))

(* a - 1 on a canonical digit sequence, a > 0 *)
RECURSIVE MagPredRaw(_)
MagPredRaw(a) ==
    IF a[Len(a)] = "0"
    THEN Append(MagPredRaw(SubSeq(a, 1, Len(a) - 1)), "9")
    ELSE Append(SubSeq(a, 1, Len(a) - 1), DigitChar(DigitVal(a[Len(a)]) - 1))

MagPred(a) == StripLeadingZeros(MagPredRaw(a))

(* a mod 4, from the last two digits *)
MagMod4(a) ==
    IF a = <<>> THEN 0
    ELSE IF Len(a) = 1 THEN DigitVal(a[1]) % 4
    ELSE (10 * DigitVal(a[Len(a) - 1]) + DigitVal(a[Len(a)])) % 4

(***************************************************************************)
(* BigInt: the value, or the exception BigInt() throws.                    *)
(***************************************************************************)
BigIntVal(neg, mag) ==
    [thrown |-> FALSE, neg |-> (neg /\ mag # <<>>), mag |-> mag, error |-> ""]

BigIntThrow(msg) ==
    [thrown |-> TRUE, neg |-> FALSE, mag |-> <<>>, error |-> msg]

(* StringToBigInt of ECMA-262: the string is trimmed; the empty string is  *)
(* 0n; otherwise an optionally signed run of decimal digits. A decimal     *)
(* point, an exponent or any other character is a SyntaxError.             *)
BigIntOfString(s) ==
    LET t == Trim(s) IN
    IF t = <<>> THEN BigIntVal(FALSE, <<>>)
    ELSE IF AllDigits(t) THEN BigIntVal(FALSE, StripLeadingZeros(t))
    ELSE IF Len(t) >= 2 /\ t[1] \in {"+", "-"} /\ AllDigits(Tail(t))
         THEN BigIntVal(t[1] = "-", StripLeadingZeros(Tail(t)))
    ELSE BigIntThrow("SyntaxError: Cannot convert to a BigInt")

(***************************************************************************)
(* JSON numbers are IEEE-754 doubles. 2^53 as a digit sequence.            *)
(***************************************************************************)
Pow2_53 == <<"9","0","0","7","1","9","9","2","5","4","7","4","0","9","9","2">>

(* The double nearest to the integer with magnitude mag < 2^54 (round to   *)
(* nearest, ties to even): exact up to 2^53; above, only even integers are *)
(* doubles, and an odd one goes to its neighbour that is a multiple of 4.  *)
RoundToDouble(mag) ==
    IF MagLess(mag, Pow2_53) \/ mag = Pow2_53 THEN mag
    ELSE IF MagMod4(mag) \in {0, 2} THEN mag
    ELSE IF MagMod4(mag) = 3 THEN MagSucc(mag)
    ELSE MagPred(mag)

(* A JSON number token of the model: an optional "-", decimal digits (below *)
(* 2^54) and an optional fraction ".5" (only after fewer than 16 digits,    *)
(* where the double keeps the half). JSON.parse yields the double.          *)
JsonNumber(tok) ==
    LET neg  == tok # <<>> /\ tok[1] = "-"
        body == IF neg THEN Tail(tok) ELSE tok
        half == Len(body) >= 2 /\ body[Len(body) - 1] = "." /\ body[Len(body)] = "5"
        int  == IF half THEN SubSeq(body, 1, Len(body) - 2) ELSE body
    IN  [neg |-> neg, mag |-> RoundToDouble(StripLeadingZeros(int)), half |-> half]

(***************************************************************************)
(* JavaScript values as they come out of JSON.parse, for the fields the    *)
(* code reads: t is "undefined" (key absent), "null", "string" (s = the    *)
(* characters) or "number" (s = the JSON number token).                    *)
(***************************************************************************)
JsUndefined == [t |-> "undefined", s |-> <<>>]
JsNull == [t |-> "null", s |-> <<>>]
JsString(s) == [t |-> "string", s |-> s]
JsNumberTok(tok) == [t |-> "number", s |-> tok]

(* ToBoolean *)
Truthy(v) ==
    CASE v.t = "undefined" -> FALSE
      [] v.t = "null" -> FALSE
      [] v.t = "string" -> v.s # <<>>
      [] v.t = "number" -> JsonNumber(v.s).mag # <<>> \/ JsonNumber(v.s).half

(* BigInt(v) for a truthy v: a string is parsed, a number must be integral *)
BigIntOf(v) ==
    CASE v.t = "string" -> BigIntOfString(v.s)
      [] v.t = "number" ->
            IF JsonNumber(v.s).half
            THEN BigIntThrow("RangeError: not an integer")
            ELSE BigIntVal(JsonNumber(v.s).neg, JsonNumber(v.s).mag)
      [] OTHER -> BigIntThrow("TypeError: Cannot convert to a BigInt")

(* BigInt(parsed.amount || "0") *)
BigIntOfAmountOrZero(v) ==
    IF Truthy(v) THEN BigIntOf(v) ELSE BigIntOfString(<<"0">>)

(***************************************************************************)
(* The signed delegate action and its transport encoding.                  *)
(*                                                                         *)
(* An optional string field of a JSON object: present or not, and its text *)
(***************************************************************************)
NoField == [present |-> FALSE, id |-> ""]
Field(id) == [present |-> TRUE, id |-> id]

(* a || b on two such fields: a when it is a non-empty string, else b *)
JsOr(a, b) == IF a.present /\ a.id # "" THEN a ELSE b

(* The bytes of a function call's args: text JSON.parse rejects, the JSON  *)
(* literal null, or an object with the keys the code reads.                *)
ArgsInvalid ==
    [json |-> "invalid", receiver_id |-> NoField, receiverId |-> NoField,
     amount |-> JsUndefined]
ArgsNull ==
    [json |-> "null", receiver_id |-> NoField, receiverId |-> NoField,
     amount |-> JsUndefined]
ArgsObject(rid, rId, amount) ==
    [json |-> "object", receiver_id |-> rid, receiverId |-> rId, amount |-> amount]

FunctionCallAction(methodName, args) ==
    [functionCall |-> TRUE, methodName |-> methodName, args |-> args]
(* an action of another kind (a native transfer, a key addition, ...) *)
NonCallAction ==
    [functionCall |-> FALSE, methodName |-> "", args |-> ArgsInvalid]

SignedDelegate(senderId, receiverId, actions, nonce) ==
    [senderId |-> senderId, receiverId |-> receiverId, actions |-> actions,
     nonce |-> nonce]

(* delegateB64: the base64 of the borsh bytes of a signed delegate action, *)
(* whole ("intact") or damaged ("truncated": a prefix of the text,         *)
(* "corrupt": characters replaced). body is what was encoded.              *)
Blob(kind, body) == [kind |-> kind, body |-> body]

Thrown(msg, d) == [ok |-> FALSE, error |-> msg, delegate |-> d]
Returned(d) == [ok |-> TRUE, error |-> "", delegate |-> d]

NoDelegate == SignedDelegate("", "", <<>>, 0)

DecodeErrorMessage == "Failed to decode signed delegate action"
JsonSyntaxError == "SyntaxError: JSON Parse error"
NullTypeError == "TypeError: null is not an object"

(* near-kit's decodeSignedDelegateAction: the decoded action, or an        *)
(* exception when the text is not the encoding of one.                     *)
decodeSignedDelegateAction(b64) ==
    IF b64.kind = "intact" THEN Returned(b64.body)
    ELSE Thrown(DecodeErrorMessage, NoDelegate)

(***************************************************************************)
(* verifyPayment                                                           *)
(***************************************************************************)
NullAmount == [isNull |-> TRUE, neg |-> FALSE, mag |-> <<>>]
FoundAmount(b) == [isNull |-> FALSE, neg |-> b.neg, mag |-> b.mag]

ScanOk(found) == [thrown |-> FALSE, error |-> "", found |-> found]
ScanThrow(msg) == [thrown |-> TRUE, error |-> msg, found |-> NullAmount]

(* a scan that takes every function call for a transfer *)
IsTransferMethod_Any(methodName) == TRUE

IsTransferMethod(methodName) ==
    methodName = "ft_transfer" \/ methodName = "ft_transfer_call"

(* a scan that keeps the first matching transfer's amount *)
ScanStep_FirstMatch(action, found, payTo) ==
    IF ~action.functionCall THEN ScanOk(found)
    ELSE IF ~IsTransferMethod(action.methodName) THEN ScanOk(found)
    ELSE IF action.args.json = "invalid"
         THEN ScanThrow(JsonSyntaxError)
    ELSE IF action.args.json = "null"
         THEN ScanThrow(NullTypeError)
    ELSE LET recipient == JsOr(action.args.receiver_id, action.args.receiverId)
             amount    == BigIntOfAmountOrZero(action.args.amount)
         IN  IF recipient.present /\ recipient.id = payTo
             THEN IF amount.thrown THEN ScanThrow(amount.error)
                  ELSE IF found.isNull THEN ScanOk(FoundAmount(amount))
                  ELSE ScanOk(found)
             ELSE ScanOk(found)

(* One iteration of the for loop: the new foundAmount, or the exception    *)
(* JSON.parse, the property read on null, or BigInt throws.                *)
ScanStep(action, found, payTo) ==
    IF ~action.functionCall THEN ScanOk(found)
    ELSE IF ~IsTransferMethod(action.methodName) THEN ScanOk(found)
    ELSE IF action.args.json = "invalid"
         THEN ScanThrow(JsonSyntaxError)
    ELSE IF action.args.json = "null"
         THEN ScanThrow(NullTypeError)
    ELSE LET recipient == JsOr(action.args.receiver_id, action.args.receiverId)
             amount    == BigIntOfAmountOrZero(action.args.amount)
         IN  IF recipient.present /\ recipient.id = payTo
             THEN IF amount.thrown THEN ScanThrow(amount.error)
                  ELSE ScanOk(FoundAmount(amount))
             ELSE ScanOk(found)

RECURSIVE ScanActions(_, _, _, _)
ScanActions(actions, i, found, payTo) ==
    IF i > Len(actions) THEN ScanOk(found)
    ELSE LET step == ScanStep(actions[i], found, payTo)
         IN  IF step.thrown THEN step
             ELSE ScanActions(actions, i + 1, step.found, payTo)

(* a comparison that accepts every amount *)
AmountsDiffer_Never(found, requiredAmount) == FALSE

AmountsDiffer(found, requiredAmount) ==
    found.neg # requiredAmount.neg \/ found.mag # requiredAmount.mag

(* lines 55-57: the three echoed fields, in this order; "" when all match *)
BasicFieldsError_NetworkFirst(payload, required) ==
    IF payload.network # required.network THEN "Network mismatch"
    ELSE IF payload.asset # required.asset THEN "Asset mismatch"
    ELSE IF payload.payTo # required.payTo THEN "Recipient mismatch"
    ELSE ""

BasicFieldsError_NoNetwork(payload, required) ==
    IF payload.asset # required.asset THEN "Asset mismatch"
    ELSE IF payload.payTo # required.payTo THEN "Recipient mismatch"
    ELSE ""

BasicFieldsError(payload, required) ==
    IF payload.asset # required.asset THEN "Asset mismatch"
    ELSE IF payload.payTo # required.payTo THEN "Recipient mismatch"
    ELSE IF payload.network # required.network THEN "Network mismatch"
    ELSE ""

(* line 62: the delegate action is addressed to the token contract *)
TargetsTokenContract_Any(delegate, required) == TRUE

TargetsTokenContract(delegate, required) ==
    delegate.receiverId = required.asset

verifyPayment(payload, required) ==
    IF BasicFieldsError(payload, required) # ""
    THEN Thrown(BasicFieldsError(payload, required), NoDelegate)
    ELSE LET decoded == decodeSignedDelegateAction(payload.delegateB64)
             delegate == decoded.delegate
         IN
         IF ~decoded.ok THEN decoded
         ELSE IF ~TargetsTokenContract(delegate, required)
              THEN Thrown("Delegate must target token contract", NoDelegate)
         ELSE LET requiredAmount == BigIntOfString(required.amountExactAtomic)
                  scan == ScanActions(delegate.actions, 1, NullAmount, required.payTo)
              IN
              IF requiredAmount.thrown THEN Thrown(requiredAmount.error, NoDelegate)
              ELSE IF scan.thrown THEN Thrown(scan.error, NoDelegate)
              ELSE IF scan.found.isNull
                   THEN Thrown("No transfer to seller found", NoDelegate)
              ELSE IF AmountsDiffer(scan.found, requiredAmount)
                   THEN Thrown("Amount mismatch", NoDelegate)
              ELSE Returned(delegate)

(***************************************************************************)
(* The zod schemas and POST /verify.                                       *)
(***************************************************************************)
Scheme == "near-delegate-exact"

(* a schema that refuses a payload naming a cap *)
PaymentPayloadParses_NoCap(raw) ==
    /\ raw.isObject
    /\ raw.scheme = Scheme
    /\ raw.delegateB64.kind # "missing"
    /\ raw.maxAmountRequired = ""

(* PaymentPayload.parse: the value must be an object whose scheme is the   *)
(* literal and whose network, asset, payTo and delegateB64 are strings.    *)
PaymentPayloadParses(raw) ==
    /\ raw.isObject
    /\ raw.scheme = Scheme
    /\ raw.delegateB64.kind # "missing"

(* PaymentDetails.parse *)
PaymentDetailsParses(raw) ==
    /\ raw.isObject
    /\ raw.scheme = Scheme

VerifyResponse(status, valid, sender, error) ==
    [status |-> status, json |-> TRUE, valid |-> valid, sender |-> sender,
     error |-> error]

(* lines 119-122 *)
VerifySuccess(delegate) == VerifyResponse(200, TRUE, delegate.senderId, "")

(* lines 123-126: the catch block *)
VerifyFailure(error) == VerifyResponse(400, FALSE, "", error)

(* app.post("/verify"): every exception becomes {valid:false, error}, 400 *)
PostVerify(paymentPayload, paymentDetails) ==
    IF ~PaymentPayloadParses(paymentPayload) THEN VerifyFailure("ZodError")
    ELSE IF ~PaymentDetailsParses(paymentDetails) THEN VerifyFailure("ZodError")
    ELSE LET res == verifyPayment(paymentPayload, paymentDetails)
         IN  IF res.ok THEN VerifySuccess(res.delegate)
             ELSE VerifyFailure(res.error)

(***************************************************************************)
(* State.                                                                  *)
(*   vIn, vOut   one call of POST /verify: its body and its answer         *)
(*   facLog      the calls the facilitator has answered, in order          *)
(*   ledger      the submissions made to the ledger, in order              *)
(*   req         the seller's requests                                     *)
(*   issued      the invoice ids the seller has issued, in order           *)
(*   buyer       the payment client: where main() stands and what it holds *)
(***************************************************************************)
VARIABLES vIn, vOut, facLog, ledger, req, issued, buyer

vars == <<vIn, vOut, facLog, ledger, req, issued, buyer>>

(***************************************************************************)
(* The inputs of POST /verify.                                             *)
(***************************************************************************)
Amt1000 == <<"1", "0", "0", "0">>
Amt999 == <<"9", "9", "9">>
Amt1001 == <<"1", "0", "0", "1">>

(* amountExactAtomic of the requirements *)
RequiredAmounts ==
    { Amt1000, <<>>, <<"-", "1">>, <<"1", ".", "5">>, <<"a", "b", "c">>, Pow2_53,
      MagSucc(Pow2_53) }

(* the amount key of a transfer's args *)
ArgAmounts ==
    { JsString(Amt999), JsString(Amt1000), JsString(Amt1001), JsString(<<>>),
      JsString(<<"-", "1">>), JsString(<<" ", "1", "0", "0", "0">>), JsString(<<"a", "b", "c">>),
      JsString(Pow2_53), JsNumberTok(Amt1000), JsNumberTok(<<"1", ".", "5">>),
      JsNumberTok(Pow2_53), JsNumberTok(MagSucc(Pow2_53)),
      JsNumberTok(MagPred(Pow2_53)), JsUndefined, JsNull }

TransferToSeller(amount) ==
    FunctionCallAction("ft_transfer", ArgsObject(Field("seller"), NoField, amount))
TransferToOther(amount) ==
    FunctionCallAction("ft_transfer", ArgsObject(Field("other"), NoField, amount))

SubActions ==
    { TransferToSeller(a) : a \in ArgAmounts }
      \cup { TransferToOther(a) : a \in {JsString(Amt1000), JsString(<<"a", "b", "c">>)} }
      \cup { FunctionCallAction("ft_transfer_call",
                 ArgsObject(Field("seller"), NoField, JsString(Amt1000))),
             FunctionCallAction("ft_transfer",
                 ArgsObject(NoField, Field("seller"), JsString(Amt1000))),
             FunctionCallAction("ft_transfer",
                 ArgsObject(Field(""), Field("seller"), JsString(Amt999))),
             FunctionCallAction("ft_transfer",
                 ArgsObject(Field("other"), Field("seller"), JsString(Amt1000))),
             FunctionCallAction("ft_transfer", ArgsInvalid),
             FunctionCallAction("ft_transfer_call", ArgsNull),
             FunctionCallAction("storage_deposit",
                 ArgsObject(Field("seller"), NoField, JsString(Amt1000))),
             FunctionCallAction("storage_deposit", ArgsInvalid),
             NonCallAction }

SeqsUpTo(S, n) == UNION { [1..k -> S] : k \in 0..n }

Delegates ==
    { SignedDelegate("buyer", rcv, acts, 1) :
        rcv \in {"tok", "other"}, acts \in SeqsUpTo(SubActions, MaxActions) }

Blobs ==
    { Blob("intact", d) : d \in Delegates }
      \cup { Blob("truncated", SignedDelegate("buyer", "tok", <<TransferToSeller(JsString(Amt1000))>>, 1)),
             Blob("corrupt", SignedDelegate("buyer", "other", <<>>, 1)),
             Blob("intact", SignedDelegate("mallory", "tok",
                                <<TransferToSeller(JsString(Amt1000))>>, 1)) }

RawPayload(isObject, scheme, network, asset, payTo, delegateB64) ==
    [isObject |-> isObject, scheme |-> scheme, network |-> network,
     asset |-> asset, payTo |-> payTo, delegateB64 |-> delegateB64,
     invoiceId |-> "", maxAmountRequired |-> ""]

RawDetails(isObject, scheme, network, asset, payTo, amountExactAtomic) ==
    [isObject |-> isObject, scheme |-> scheme, network |-> network,
     asset |-> asset, payTo |-> payTo, amountExactAtomic |-> amountExactAtomic,
     maxTimeoutSeconds |-> 60, mimeType |-> "application/json",
     resource |-> "/weather", description |-> ""]

VerifyPayloads ==
    { RawPayload(TRUE, Scheme, n, a, p, b) :
        n \in {"testnet", "mainnet"}, a \in {"tok", "other"},
        p \in {"seller", "other"}, b \in Blobs }
      \cup { [RawPayload(TRUE, Scheme, "testnet", "tok", "seller",
                         Blob("intact", SignedDelegate("buyer", "tok",
                                  <<TransferToSeller(JsString(amt))>>, 1)))
                EXCEPT !.invoiceId = "inv-1", !.maxAmountRequired = cap] :
              amt \in {Amt1000, Amt1001}, cap \in {"", "1", "1000"} }

VerifyDetails ==
    { RawDetails(TRUE, Scheme, "testnet", "tok", "seller", amt) : amt \in RequiredAmounts }
      \cup { [RawDetails(TRUE, Scheme, "testnet", "tok", "seller", Amt1000)
                EXCEPT !.maxTimeoutSeconds = 0, !.mimeType = "text/plain",
                       !.resource = "/other", !.description = "free"] }

NoVerifyResponse == VerifyResponse(0, FALSE, "", "")

(* no payment client runs *)
NoBuyer == [pc |-> "idle"]

InitVerifyState ==
    /\ vIn \in [payload : VerifyPayloads, details : VerifyDetails]
    /\ vOut = [done |-> FALSE, response |-> NoVerifyResponse]

InitProtocolState ==
    /\ facLog = <<>>
    /\ ledger = <<>>
    /\ req = <<>>
    /\ issued = <<>>
    /\ buyer = NoBuyer

(* the facilitator answers the POST /verify whose body is vIn *)
VerifyCall ==
    /\ ~vOut.done
    /\ vOut' = [done |-> TRUE,
                response |-> PostVerify(vIn.payload, vIn.details)]
    /\ UNCHANGED <<buyer, vIn, facLog, ledger, req, issued>>

InitVerify == InitVerifyState /\ InitProtocolState
NextVerify == VerifyCall
SpecVerify == InitVerify /\ [][NextVerify]_vars

(***************************************************************************)
(* The ledger, as the facilitator sees it through near-kit: send() returns *)
(* the outcome of an accepted transaction or throws the ledger's error. A  *)
(* signed delegate action is executed at most once (its nonce is consumed) *)
(***************************************************************************)
AlreadyExecuted(led, delegate) ==
    \E k \in 1..Len(led) :
        /\ led[k].accepted
        /\ led[k].delegate.senderId = delegate.senderId
        /\ led[k].delegate.nonce = delegate.nonce

(* the n-th transaction of the ledger: its hash and the id of its outcome *)
TxHash(n) == <<"T", DigitChar(n)>>
OutcomeId(n) == <<"O", DigitChar(n)>>
NoHash == <<>>

(* the execution status of a transaction that went through *)
SuccessValue == <<"S", "u", "c", "c", "e", "s", "s", "V", "a", "l", "u", "e">>
NoStatus == <<>>

SendResult(accepted, n, error) ==
    [accepted |-> accepted,
     hash |-> IF accepted THEN TxHash(n) ELSE NoHash,
     outcomeId |-> IF accepted THEN OutcomeId(n) ELSE NoHash,
     status |-> IF accepted THEN SuccessValue ELSE NoStatus, error |-> error]

LedgerOutcomes(led, delegate) ==
    IF AlreadyExecuted(led, delegate)
    THEN { SendResult(FALSE, 0, "InvalidNonce") }
    ELSE { SendResult(TRUE, Len(led) + 1, ""),
           SendResult(FALSE, 0, "NotEnoughBalance") }

(***************************************************************************)
(* POST /settle                                                            *)
(***************************************************************************)
RelayerAccountId == "relayer"

getRelayer == [defaultSignerId |-> RelayerAccountId]

SettleResponse(status, json, ok, txHash, blockHash, execStatus, error) ==
    [status |-> status, json |-> json, ok |-> ok, txHash |-> txHash,
     blockHash |-> blockHash, execStatus |-> execStatus, error |-> error]

NoSettleResponse == SettleResponse(0, FALSE, FALSE, NoHash, NoHash, NoStatus, "")

(* a receipt that carries the transaction hash only *)
SettleReceipt_HashOnly(result) ==
    SettleResponse(200, TRUE, TRUE, result.hash, NoHash, NoStatus, "")

(* lines 98-103: the receipt settlePayment returns *)
SettleReceipt(result) ==
    SettleResponse(200, TRUE, TRUE, result.hash, result.outcomeId, result.status, "")

(* a catch block that reports a rejected submission as settled *)
SettleFailure_ReportedOk(error) ==
    SettleResponse(200, TRUE, TRUE, NoHash, NoHash, NoStatus, "")

(* an exception that leaves the handler: the framework answers 500 *)
SettleFailure_Uncaught(error) ==
    SettleResponse(500, FALSE, FALSE, NoHash, NoHash, NoStatus, "")

(* lines 136-139: the catch block *)
SettleFailure(error) == SettleResponse(400, TRUE, FALSE, NoHash, NoHash, NoStatus, error)

(* a submission signed by whoever the client names as sender *)
Submission_SignedBySender(call, delegate, result) ==
    [call |-> call, signer |-> delegate.senderId, delegate |-> delegate,
     accepted |-> result.accepted, hash |-> result.hash,
     outcomeId |-> result.outcomeId, status |-> result.status,
     error |-> result.error]

(* line 97: what settlePayment submits, and as whom *)
Submission(call, delegate, result) ==
    [call |-> call, signer |-> getRelayer.defaultSignerId, delegate |-> delegate,
     accepted |-> result.accepted, hash |-> result.hash,
     outcomeId |-> result.outcomeId, status |-> result.status,
     error |-> result.error]

NoPayload ==
    [isObject |-> FALSE, scheme |-> "", network |-> "", asset |-> "", payTo |-> "",
     delegateB64 |-> Blob("missing", NoDelegate), invoiceId |-> "",
     maxAmountRequired |-> ""]

NoDetails ==
    [isObject |-> FALSE, scheme |-> "", network |-> "", asset |-> "", payTo |-> "",
     amountExactAtomic |-> <<>>, maxTimeoutSeconds |-> 0, mimeType |-> "",
     resource |-> "", description |-> ""]

(* one answered call of the facilitator; from = 0 for a call that does not *)
(* come from the seller, else the seller's request                         *)
VerifyCallEntry(from, payload, details, response) ==
    [op |-> "verify", from |-> from, payload |-> payload, details |-> details,
     delegateB64 |-> payload.delegateB64, verifyResponse |-> response,
     settleResponse |-> NoSettleResponse]

SettleCallEntry(from, delegateB64, response) ==
    [op |-> "settle", from |-> from, payload |-> NoPayload, details |-> NoDetails,
     delegateB64 |-> delegateB64, verifyResponse |-> NoVerifyResponse,
     settleResponse |-> response]

(* a /verify handler that also hands the decoded action to the ledger *)
HandleVerify_Submitting(from, paymentPayload, paymentDetails) ==
    /\ facLog' = Append(facLog,
            VerifyCallEntry(from, paymentPayload, paymentDetails,
                            PostVerify(paymentPayload, paymentDetails)))
    /\ ledger' = IF PostVerify(paymentPayload, paymentDetails).valid
                 THEN Append(ledger,
                         Submission(Len(facLog) + 1, paymentPayload.delegateB64.body,
                                    SendResult(TRUE, Len(ledger) + 1, "")))
                 ELSE ledger

(* app.post("/verify") *)
HandleVerify(from, paymentPayload, paymentDetails) ==
    /\ facLog' = Append(facLog,
            VerifyCallEntry(from, paymentPayload, paymentDetails,
                            PostVerify(paymentPayload, paymentDetails)))
    /\ ledger' = ledger

(* a /settle handler that remembers the authorizations it has settled *)
HandleSettle_Deduplicating(from, delegateB64) ==
    IF \E k \in 1..Len(facLog) :
          /\ facLog[k].op = "settle"
          /\ facLog[k].delegateB64 = delegateB64
          /\ facLog[k].settleResponse.ok
    THEN /\ facLog' = Append(facLog,
                SettleCallEntry(from, delegateB64, SettleFailure("Already settled")))
         /\ ledger' = ledger
    ELSE \E result \in LedgerOutcomes(ledger, decodeSignedDelegateAction(delegateB64).delegate) :
            /\ ledger' = Append(ledger,
                    Submission(Len(facLog) + 1,
                               decodeSignedDelegateAction(delegateB64).delegate, result))
            /\ facLog' = Append(facLog,
                    SettleCallEntry(from, delegateB64,
                        IF result.accepted THEN SettleReceipt(result)
                        ELSE SettleFailure(result.error)))

(* a /settle handler that submits only what /verify has found valid *)
HandleSettle_OnlyVerified(from, delegateB64) ==
    IF ~\E k \in 1..Len(facLog) :
          /\ facLog[k].op = "verify"
          /\ facLog[k].delegateB64 = delegateB64
          /\ facLog[k].verifyResponse.valid
    THEN /\ facLog' = Append(facLog,
                SettleCallEntry(from, delegateB64, SettleFailure("Not verified")))
         /\ ledger' = ledger
    ELSE \E result \in LedgerOutcomes(ledger, decodeSignedDelegateAction(delegateB64).delegate) :
            /\ ledger' = Append(ledger,
                    Submission(Len(facLog) + 1,
                               decodeSignedDelegateAction(delegateB64).delegate, result))
            /\ facLog' = Append(facLog,
                    SettleCallEntry(from, delegateB64,
                        IF result.accepted THEN SettleReceipt(result)
                        ELSE SettleFailure(result.error)))

(* a /settle handler that submits a rejected action a second time *)
HandleSettle_Retrying(from, delegateB64) ==
    LET decoded == decodeSignedDelegateAction(delegateB64) IN
    IF ~decoded.ok
    THEN /\ facLog' = Append(facLog,
                SettleCallEntry(from, delegateB64, SettleFailure(decoded.error)))
         /\ ledger' = ledger
    ELSE \E result \in LedgerOutcomes(ledger, decoded.delegate) :
            /\ ledger' =
                 IF result.accepted
                 THEN Append(ledger,
                         Submission(Len(facLog) + 1, decoded.delegate, result))
                 ELSE Append(Append(ledger,
                         Submission(Len(facLog) + 1, decoded.delegate, result)),
                         Submission(Len(facLog) + 1, decoded.delegate, result))
            /\ facLog' = Append(facLog,
                    SettleCallEntry(from, delegateB64,
                        IF result.accepted THEN SettleReceipt(result)
                        ELSE SettleFailure(result.error)))

(* app.post("/settle"): decode, then settlePayment; every exception        *)
(* becomes {ok:false, error}, 400                                          *)
HandleSettle(from, delegateB64) ==
    LET decoded == decodeSignedDelegateAction(delegateB64) IN
    IF ~decoded.ok
    THEN /\ facLog' = Append(facLog,
                SettleCallEntry(from, delegateB64, SettleFailure(decoded.error)))
         /\ ledger' = ledger
    ELSE \E result \in LedgerOutcomes(ledger, decoded.delegate) :
            /\ ledger' = Append(ledger,
                    Submission(Len(facLog) + 1, decoded.delegate, result))
            /\ facLog' = Append(facLog,
                    SettleCallEntry(from, delegateB64,
                        IF result.accepted THEN SettleReceipt(result)
                        ELSE SettleFailure(result.error)))

(***************************************************************************)
(* The facilitator alone, called by arbitrary clients.                     *)
(***************************************************************************)
MaxCalls == 3

PayingDelegate(amount, nonce) ==
    SignedDelegate("buyer", "tok", <<TransferToSeller(JsString(amount))>>, nonce)

FacBlobs ==
    { Blob("intact", PayingDelegate(Amt1000, 1)),
      Blob("intact", PayingDelegate(Amt999, 2)),
      Blob("intact", SignedDelegate("mallory", "tok",
                         <<TransferToSeller(JsString(Amt1000))>>, 1)),
      Blob("truncated", PayingDelegate(Amt1000, 1)),
      Blob("corrupt", PayingDelegate(Amt1000, 1)),
      Blob("missing", NoDelegate) }

FacPayloads ==
    { RawPayload(TRUE, Scheme, "testnet", a, "seller", b) :
        a \in {"tok", "other"}, b \in FacBlobs }
      \cup { RawPayload(TRUE, "exact", "testnet", "tok", "seller",
                        Blob("intact", PayingDelegate(Amt1000, 1))),
             NoPayload }

FacDetails == { RawDetails(TRUE, Scheme, "testnet", "tok", "seller", Amt1000) }

ClientVerify ==
    /\ Len(facLog) < MaxCalls
    /\ \E p \in FacPayloads, d \in FacDetails : HandleVerify(0, p, d)
    /\ UNCHANGED <<buyer, vIn, vOut, req, issued>>

ClientSettle ==
    /\ Len(facLog) < MaxCalls
    /\ \E b \in FacBlobs : HandleSettle(0, b)
    /\ UNCHANGED <<buyer, vIn, vOut, req, issued>>

NoVerifyInput == [payload |-> NoPayload, details |-> NoDetails]

InitIdleVerify ==
    /\ vIn = NoVerifyInput
    /\ vOut = [done |-> FALSE, response |-> NoVerifyResponse]

InitFacilitator == InitIdleVerify /\ InitProtocolState
NextFacilitator == ClientVerify \/ ClientSettle
SpecFacilitator == InitFacilitator /\ [][NextFacilitator]_vars

(***************************************************************************)
(* Text, JSON and base64, as the receipt header goes through them.         *)
(*                                                                         *)
(* The printable ASCII characters, code 32 to 126; the UTF-8 encoding of   *)
(* such a character is the one byte with its code. (Code 96, the grave     *)
(* accent, is written "grave".)                                            *)
(***************************************************************************)
Ascii ==
    << " ", "!", "\"", "#", "$", "%", "&", "'", "(", ")", "*", "+", ",", "-", ".", "/",
       "0", "1", "2", "3", "4", "5", "6", "7", "8", "9", ":", ";", "<", "=", ">", "?",
       "@", "A", "B", "C", "D", "E", "F", "G", "H", "I", "J", "K", "L", "M", "N", "O",
       "P", "Q", "R", "S", "T", "U", "V", "W", "X", "Y", "Z", "[", "\\", "]", "^", "_",
       "grave", "a", "b", "c", "d", "e", "f", "g", "h", "i", "j", "k", "l", "m", "n", "o",
       "p", "q", "r", "s", "t", "u", "v", "w", "x", "y", "z", "{", "|", "}", "~" >>

CharCode(c) == 31 + (CHOOSE i \in 1..Len(Ascii) : Ascii[i] = c)
CodeChar(b) == Ascii[b - 31]

(* Buffer.from(text) and buffer.toString("utf8") *)
Utf8Encode(text) == [i \in 1..Len(text) |-> CharCode(text[i])]
Utf8Decode(bytes) == [i \in 1..Len(bytes) |-> CodeChar(bytes[i])]

Base64Alphabet ==
    << "A", "B", "C", "D", "E", "F", "G", "H", "I", "J", "K", "L", "M", "N", "O", "P",
       "Q", "R", "S", "T", "U", "V", "W", "X", "Y", "Z", "a", "b", "c", "d", "e", "f",
       "g", "h", "i", "j", "k", "l", "m", "n", "o", "p", "q", "r", "s", "t", "u", "v",
       "w", "x", "y", "z", "0", "1", "2", "3", "4", "5", "6", "7", "8", "9", "+", "/" >>

ByteAt(bytes, i) == IF i <= Len(bytes) THEN bytes[i] ELSE 0

(* buffer.toString("base64"): three bytes give four characters, the last   *)
(* group is filled up with "="                                             *)
Base64Encode(bytes) ==
    [j \in 1..(4 * ((Len(bytes) + 2) \div 3)) |->
        LET g      == (j - 1) \div 4
            pos    == (j - 1) % 4
            triple == 65536 * ByteAt(bytes, 3 * g + 1)
                        + 256 * ByteAt(bytes, 3 * g + 2)
                        + ByteAt(bytes, 3 * g + 3)
            sextet == CASE pos = 0 -> triple \div 262144
                        [] pos = 1 -> (triple \div 4096) % 64
                        [] pos = 2 -> (triple \div 64) % 64
                        [] pos = 3 -> triple % 64
        IN  IF pos = 2 /\ 3 * g + 2 > Len(bytes) THEN "="
            ELSE IF pos = 3 /\ 3 * g + 3 > Len(bytes) THEN "="
            ELSE Base64Alphabet[sextet + 1]]

IsBase64Char(c) == \E i \in 1..Len(Base64Alphabet) : Base64Alphabet[i] = c
SextetOf(c) == (CHOOSE i \in 1..Len(Base64Alphabet) : Base64Alphabet[i] = c) - 1

(* the text up to its first "=" *)
RECURSIVE UpToPadding(_)
UpToPadding(text) ==
    IF text = <<>> \/ text[1] = "=" THEN <<>>
    ELSE <<text[1]>> \o UpToPadding(Tail(text))

SextetAt(text, i) == IF i <= Len(text) THEN SextetOf(text[i]) ELSE 0

(* Buffer.from(text, "base64"): decoding stops at the padding, characters  *)
(* outside the alphabet are skipped, four characters give three bytes      *)
Base64Decode(text) ==
    LET data == SelectSeq(UpToPadding(text), IsBase64Char) IN
    [i \in 1..((6 * Len(data)) \div 8) |->
        LET g      == (i - 1) \div 3
            pos    == (i - 1) % 3
            triple == 262144 * SextetAt(data, 4 * g + 1)
                        + 4096 * SextetAt(data, 4 * g + 2)
                        + 64 * SextetAt(data, 4 * g + 3)
                        + SextetAt(data, 4 * g + 4)
        IN  CASE pos = 0 -> triple \div 65536
              [] pos = 1 -> (triple \div 256) % 256
              [] pos = 2 -> triple % 256]

(* A JSON object whose values are strings and booleans: its members, in    *)
(* insertion order.                                                        *)
StringMember(key, text) == [key |-> key, type |-> "string", text |-> text, bool |-> FALSE]
BooleanMember(key, bool) == [key |-> key, type |-> "boolean", text |-> <<>>, bool |-> bool]

(* the quoted form of a string: quote and backslash are escaped *)
RECURSIVE JsonEscape(_)
JsonEscape(text) ==
    IF text = <<>> THEN <<>>
    ELSE IF text[1] \in {"\"", "\\"}
         THEN <<"\\", text[1]>> \o JsonEscape(Tail(text))
    ELSE <<text[1]>> \o JsonEscape(Tail(text))

JsonQuote(text) == <<"\"">> \o JsonEscape(text) \o <<"\"">>

JsonStringifyMember(m) ==
    JsonQuote(m.key) \o <<":">> \o
        (IF m.type = "string" THEN JsonQuote(m.text)
         ELSE IF m.bool THEN <<"t", "r", "u", "e">>
         ELSE <<"f", "a", "l", "s", "e">>)

RECURSIVE JsonStringifyMembers(_)
JsonStringifyMembers(members) ==
    IF members = <<>> THEN <<>>
    ELSE IF Len(members) = 1 THEN JsonStringifyMember(members[1])
    ELSE JsonStringifyMember(members[1]) \o <<",">> \o JsonStringifyMembers(Tail(members))

(* JSON.stringify of such an object *)
JsonStringify(members) == <<"{">> \o JsonStringifyMembers(members) \o <<"}">>

JsonParsed(members) == [ok |-> TRUE, members |-> members]
JsonParseError == [ok |-> FALSE, members |-> <<>>]

StartsWith(text, i, word) ==
    /\ i + Len(word) - 1 <= Len(text)
    /\ \A k \in 1..Len(word) : text[i + k - 1] = word[k]

(* a string literal whose opening quote is before position i: its text and *)
(* the position after its closing quote (0 when it is not closed)          *)
RECURSIVE JsonScanString(_, _, _)
JsonScanString(text, i, acc) ==
    IF i > Len(text) THEN [text |-> acc, next |-> 0]
    ELSE IF text[i] = "\"" THEN [text |-> acc, next |-> i + 1]
    ELSE IF text[i] = "\\"
         THEN IF i + 1 <= Len(text) /\ text[i + 1] \in {"\"", "\\"}
              THEN JsonScanString(text, i + 2, Append(acc, text[i + 1]))
              ELSE [text |-> acc, next |-> 0]
    ELSE JsonScanString(text, i + 1, Append(acc, text[i]))

(* the members from position i on, up to the closing brace, which must end *)
(* the text                                                                *)
RECURSIVE JsonParseMembers(_, _, _)
JsonParseMembers(text, i, acc) ==
    IF ~StartsWith(text, i, <<"\"">>) THEN JsonParseError
    ELSE LET key == JsonScanString(text, i + 1, <<>>) IN
         IF key.next = 0 \/ ~StartsWith(text, key.next, <<":">>) THEN JsonParseError
         ELSE LET v == key.next + 1
                  str == JsonScanString(text, v + 1, <<>>)
                  member ==
                      IF StartsWith(text, v, <<"\"">>) /\ str.next # 0
                      THEN [ok |-> TRUE, m |-> StringMember(key.text, str.text),
                            next |-> str.next]
                      ELSE IF StartsWith(text, v, <<"t", "r", "u", "e">>)
                      THEN [ok |-> TRUE, m |-> BooleanMember(key.text, TRUE),
                            next |-> v + 4]
                      ELSE IF StartsWith(text, v, <<"f", "a", "l", "s", "e">>)
                      THEN [ok |-> TRUE, m |-> BooleanMember(key.text, FALSE),
                            next |-> v + 5]
                      ELSE [ok |-> FALSE, m |-> BooleanMember(key.text, FALSE),
                            next |-> 0]
              IN  IF ~member.ok THEN JsonParseError
                  ELSE IF StartsWith(text, member.next, <<"}">>)
                       THEN IF member.next = Len(text)
                            THEN JsonParsed(Append(acc, member.m))
                            ELSE JsonParseError
                  ELSE IF StartsWith(text, member.next, <<",">>)
                       THEN JsonParseMembers(text, member.next + 1,
                                             Append(acc, member.m))
                  ELSE JsonParseError

(* JSON.parse of the text of such an object *)
JsonParse(text) ==
    IF text = <<"{", "}">> THEN JsonParsed(<<>>)
    ELSE IF StartsWith(text, 1, <<"{">>) THEN JsonParseMembers(text, 2, <<>>)
    ELSE JsonParseError

(* the object settlePayment returns (lines 98-103), which the seller holds *)
(* as settlement after settleRes.json()                                    *)
ReceiptObject(settlement) ==
    << BooleanMember(<<"o", "k">>, settlement.ok),
       StringMember(<<"t", "x", "H", "a", "s", "h">>, settlement.txHash),
       StringMember(<<"b", "l", "o", "c", "k", "H", "a", "s", "h">>, settlement.blockHash),
       StringMember(<<"s", "t", "a", "t", "u", "s">>, settlement.execStatus) >>

(* a header that carries the transaction hash in place of the receipt *)
ReceiptHeader_HashOnly(settlement) ==
    Base64Encode(Utf8Encode(settlement.txHash))

(* line 77: Buffer.from(JSON.stringify(settlement)).toString("base64");   *)
(* each call returns its value (the text, then the bytes) before the next  *)
(* one reads it                                                            *)
ReceiptHeader(settlement) ==
    CHOOSE header \in
        { Base64Encode(bytes) :
            bytes \in { Utf8Encode(text) :
                text \in { JsonStringify(ReceiptObject(settlement)) } } } : TRUE

(* the client: JSON.parse(Buffer.from(receipt, "base64").toString("utf8")) *)
ClientReceipt(receipt) == JsonParse(Utf8Decode(Base64Decode(receipt)))

(***************************************************************************)
(* The seller: GET /weather.                                               *)
(***************************************************************************)
NearNetwork == "testnet"
TokenAccountId == "tok"
SellerAccountId == "seller"
PriceAtomic == Amt1000

MaxTime == 2
Timestamps == 1..MaxTime

(* line 28: (Number(PRICE_ATOMIC) / 1e6).toFixed(6) inside the description *)
PriceDescription(price) ==
    IF price = Amt1000 THEN "Weather for 0.001000 (assuming 6 decimals)"
    ELSE "Weather for NaN (assuming 6 decimals)"

(* a seller whose price rises with every invoice it has issued *)
buildAccepts_Surging(resource) ==
    << [isObject |-> TRUE, scheme |-> Scheme, network |-> NearNetwork,
        asset |-> TokenAccountId, payTo |-> SellerAccountId,
        amountExactAtomic |-> IF issued = <<>> THEN PriceAtomic ELSE Amt1001,
        maxTimeoutSeconds |-> 60,
        mimeType |-> "application/json", resource |-> resource,
        description |-> PriceDescription(PriceAtomic)] >>

buildAccepts(resource) ==
    << [isObject |-> TRUE, scheme |-> Scheme, network |-> NearNetwork,
        asset |-> TokenAccountId, payTo |-> SellerAccountId,
        amountExactAtomic |-> PriceAtomic, maxTimeoutSeconds |-> 60,
        mimeType |-> "application/json", resource |-> resource,
        description |-> PriceDescription(PriceAtomic)] >>

(* crypto.randomUUID(): a value the generator has not returned before *)
FreshUuid_Reused(earlier) == 1

FreshUuid(earlier) == Len(earlier) + 1

NoInvoice == [id |-> 0, createdAt |-> 0]
NoPaid == [asset |-> "", amount |-> <<>>, tx |-> NoHash]
NoReceipt == [present |-> FALSE, value |-> <<>>]

(* what the seller answers: the status, the JSON body (kind "challenge",   *)
(* "error" or "resource") and the x-payment-response header                *)
Response(status, kind, error, details, accepts, invoice, paid, receipt) ==
    [status |-> status, kind |-> kind, error |-> error, details |-> details,
     accepts |-> accepts, invoice |-> invoice, paid |-> paid, receipt |-> receipt]

NoResponse == Response(0, "", "", "", <<>>, NoInvoice, NoPaid, NoReceipt)

(* lines 40-47 *)
ChallengeResponse(resource, id, now) ==
    Response(402, "challenge", "", "", buildAccepts(resource),
             [id |-> id, createdAt |-> now], NoPaid, NoReceipt)

(* lines 62, 73 and 88: c.json({error, details}, 402) *)
ErrorResponse_500(error, details) ==
    Response(500, "error", error, details, <<>>, NoInvoice, NoPaid, NoReceipt)

ErrorResponse(error, details) ==
    Response(402, "error", error, details, <<>>, NoInvoice, NoPaid, NoReceipt)

(* lines 72-74: the answer to a settlement that is not ok *)
NotSettledResponse_WithReceipt(settlement) ==
    Response(402, "error", "PAYMENT_NOT_SETTLED", settlement.error, <<>>,
             NoInvoice, NoPaid,
             [present |-> TRUE, value |-> ReceiptHeader(settlement)])

NotSettledResponse(settlement) ==
    ErrorResponse("PAYMENT_NOT_SETTLED", settlement.error)

(* a 200 answer that leaves the receipt header out *)
ResourceResponse_NoReceipt(required, settlement) ==
    Response(200, "resource", "", "", <<>>, NoInvoice,
             [asset |-> TokenAccountId, amount |-> required.amountExactAtomic,
              tx |-> settlement.txHash],
             NoReceipt)

(* lines 77-85: the header is base64(JSON.stringify(settlement)) *)
ResourceResponse(required, settlement) ==
    Response(200, "resource", "", "", <<>>, NoInvoice,
             [asset |-> TokenAccountId, amount |-> required.amountExactAtomic,
              tx |-> settlement.txHash],
             [present |-> TRUE, value |-> ReceiptHeader(settlement)])

(* line 61: if (!verification.valid) return ... *)
VerificationPasses_Always(verification) == TRUE

VerificationPasses(verification) == verification.valid

(* line 72: if (!settlement.ok) return ... *)
SettlementPasses_Always(settlement) == TRUE

SettlementPasses(settlement) == settlement.ok

(* The x-payment header: absent, the empty string, text that is not the    *)
(* base64 of JSON, the base64 of the JSON literal null, or the base64 of a *)
(* JSON object (payment = what JSON.parse returns).                        *)
Header(kind, payment) == [kind |-> kind, payment |-> payment]

SellerPayments ==
    { RawPayload(TRUE, Scheme, "testnet", "tok", "seller",
                 Blob("intact", PayingDelegate(Amt1000, 1))),
      RawPayload(TRUE, Scheme, "testnet", "tok", "seller",
                 Blob("intact", PayingDelegate(Amt999, 2))),
      RawPayload(TRUE, Scheme, "testnet", "other", "seller",
                 Blob("intact", PayingDelegate(Amt1000, 1))),
      RawPayload(TRUE, Scheme, "testnet", "tok", "seller",
                 Blob("truncated", PayingDelegate(Amt1000, 1))),
      RawPayload(TRUE, "exact", "testnet", "tok", "seller",
                 Blob("intact", PayingDelegate(Amt1000, 1))) }

SellerHeaders ==
    { Header("absent", NoPayload), Header("empty", NoPayload),
      Header("garbage", NoPayload), Header("null", NoPayload) }
      \cup { Header("object", p) : p \in SellerPayments }

Resource == "/weather"

(* a request in the handler: pc is where the handler stands; verifyWire    *)
(* and settleWire are the facilitator's answers on their way back;         *)
(* verification and settlement are the answers the handler has read        *)
Request(header, pc, response) ==
    [url |-> Resource, header |-> header, pc |-> pc, payment |-> header.payment,
     verifyWire |-> NoVerifyResponse, settleWire |-> NoSettleResponse,
     verification |-> NoVerifyResponse, settlement |-> NoSettleResponse,
     fault |-> "", response |-> response]

(* lines 35-59: the handler up to its first await *)
Receive ==
    /\ Len(req) < MaxRequests
    /\ \E h \in SellerHeaders :
          \/ /\ h.kind \in {"absent", "empty"}
             /\ \E now \in Timestamps :
                   req' = Append(req,
                       Request(h, "done",
                           ChallengeResponse(Resource, FreshUuid(issued), now)))
             /\ issued' = Append(issued, FreshUuid(issued))
          \/ /\ h.kind = "garbage"
             /\ req' = Append(req,
                    Request(h, "done",
                        ErrorResponse("PAYMENT_ERROR", JsonSyntaxError)))
             /\ issued' = issued
          \/ /\ h.kind \in {"null", "object"}
             /\ req' = Append(req, Request(h, "verifyPending", NoResponse))
             /\ issued' = issued
    /\ UNCHANGED <<buyer, vIn, vOut, facLog, ledger>>

(* the facilitator answers the seller's POST /verify *)
FacilitatorVerify(r) ==
    /\ req[r].pc = "verifyPending"
    /\ HandleVerify(r, req[r].payment, buildAccepts(req[r].url)[1])
    /\ req' = [req EXCEPT ![r].pc = "verifyAnswered",
                          ![r].verifyWire = facLog'[Len(facLog')].verifyResponse]
    /\ UNCHANGED <<buyer, vIn, vOut, issued>>

(* lines 60-70: the handler reads the verification *)
AfterVerify(r) ==
    /\ req[r].pc = "verifyAnswered"
    /\ req' =
         IF ~VerificationPasses(req[r].verifyWire)
         THEN [req EXCEPT ![r].pc = "done",
                          ![r].verification = req[r].verifyWire,
                          ![r].response =
                              ErrorResponse("PAYMENT_INVALID", req[r].verifyWire.error)]
         ELSE IF ~req[r].payment.isObject
         THEN [req EXCEPT ![r].pc = "done",
                          ![r].verification = req[r].verifyWire,
                          ![r].response = ErrorResponse("PAYMENT_ERROR", NullTypeError)]
         ELSE [req EXCEPT ![r].pc = "settlePending",
                          ![r].verification = req[r].verifyWire]
    /\ UNCHANGED <<buyer, vIn, vOut, facLog, ledger, issued>>

(* a seller that sends a re-encoded authorization to settle *)
FacilitatorSettle_Rewriting(r) ==
    /\ req[r].pc = "settlePending"
    /\ HandleSettle(r, Blob("intact", PayingDelegate(Amt1000, 2)))
    /\ req' = [req EXCEPT ![r].pc = "settleAnswered",
                          ![r].settleWire = facLog'[Len(facLog')].settleResponse]
    /\ UNCHANGED <<buyer, vIn, vOut, issued>>

(* the facilitator answers the seller's POST /settle *)
FacilitatorSettle(r) ==
    /\ req[r].pc = "settlePending"
    /\ HandleSettle(r, req[r].payment.delegateB64)
    /\ req' = [req EXCEPT ![r].pc = "settleAnswered",
                          ![r].settleWire = facLog'[Len(facLog')].settleResponse]
    /\ UNCHANGED <<buyer, vIn, vOut, issued>>

(* a handler that keeps waiting when the settlement is not ok *)
AfterSettle_Hanging(r) ==
    /\ req[r].pc = "settleAnswered"
    /\ req' =
         IF ~SettlementPasses(req[r].settleWire)
         THEN req
         ELSE [req EXCEPT ![r].pc = "done",
                          ![r].settlement = req[r].settleWire,
                          ![r].response =
                              ResourceResponse(buildAccepts(req[r].url)[1],
                                               req[r].settleWire)]
    /\ UNCHANGED <<buyer, vIn, vOut, facLog, ledger, issued>>

(* lines 71-85: the handler reads the settlement *)
AfterSettle(r) ==
    /\ req[r].pc = "settleAnswered"
    /\ req' =
         IF ~SettlementPasses(req[r].settleWire)
         THEN [req EXCEPT ![r].pc = "done",
                          ![r].settlement = req[r].settleWire,
                          ![r].response = NotSettledResponse(req[r].settleWire)]
         ELSE [req EXCEPT ![r].pc = "done",
                          ![r].settlement = req[r].settleWire,
                          ![r].response =
                              ResourceResponse(buildAccepts(req[r].url)[1],
                                               req[r].settleWire)]
    /\ UNCHANGED <<buyer, vIn, vOut, facLog, ledger, issued>>

(* lines 86-89: fetch rejects (the facilitator is unreachable, or the      *)
(* connection breaks before the answer arrives) or the answer is not JSON  *)
FetchFails(r) ==
    /\ req[r].pc \in {"verifyPending", "verifyAnswered", "settlePending", "settleAnswered"}
    /\ \E why \in {"fetch failed", "SyntaxError: JSON Parse error"} :
          req' = [req EXCEPT ![r].pc = "done", ![r].fault = why,
                             ![r].response = ErrorResponse("PAYMENT_ERROR", why)]
    /\ UNCHANGED <<buyer, vIn, vOut, facLog, ledger, issued>>

Init == InitIdleVerify /\ InitProtocolState

Next ==
    \/ Receive
    \/ \E r \in 1..Len(req) : FacilitatorVerify(r)
    \/ \E r \in 1..Len(req) : AfterVerify(r)
    \/ \E r \in 1..Len(req) : FacilitatorSettle(r)
    \/ \E r \in 1..Len(req) : AfterSettle(r)
    \/ \E r \in 1..Len(req) : FetchFails(r)

Spec == Init /\ [][Next]_vars

(* The same, where every call of the facilitator returns and the handler   *)
(* runs on when the answer it awaits has arrived; whether a call fails     *)
(* (FetchFails) is left open.                                              *)
SpecLive ==
    /\ Spec
    /\ WF_vars(\E r \in 1..Len(req) : FacilitatorVerify(r))
    /\ WF_vars(\E r \in 1..Len(req) : AfterVerify(r))
    /\ WF_vars(\E r \in 1..Len(req) : FacilitatorSettle(r))
    /\ WF_vars(\E r \in 1..Len(req) : AfterSettle(r))

(***************************************************************************)
(* The payment client: main() of the buyer.                                *)
(***************************************************************************)
MaxAccepts == 2

BuyerAccountId == "buyer"

(* the client's own configuration *)
BuyerEnv(token, seller) ==
    [TOKEN_ACCOUNT_ID |-> token, SELLER_ACCOUNT_ID |-> seller]

BuyerEnvs == { BuyerEnv(t, s) : t \in {"tok", "other"}, s \in {"seller", "other"} }

(* what the first fetch returns: the status and the body's accepts and     *)
(* invoice                                                                 *)
FirstAnswer(status, accepts, id) ==
    [status |-> status, accepts |-> accepts, invoice |-> [id |-> id, createdAt |-> 1]]

AcceptsEntries ==
    { RawDetails(TRUE, Scheme, n, a, p, amt) :
        n \in {"testnet", "mainnet"}, a \in {"tok", "other"},
        p \in {"seller", "other"}, amt \in {Amt1000, Amt999} }

FirstAnswers ==
    { FirstAnswer(402, acc, id) :
        acc \in SeqsUpTo(AcceptsEntries, MaxAccepts), id \in {"inv-1", "inv-2"} }
      \cup { FirstAnswer(200, <<>>, ""),
             FirstAnswer(500, << RawDetails(TRUE, Scheme, "testnet", "tok", "seller", Amt1000) >>,
                         "inv-1") }

(* main() on its way: signed counts the delegate actions it has signed,    *)
(* sent the requests it has made with an x-payment header, result is the   *)
(* status of the answer to such a request (0: none yet)                    *)
Buyer(pc, env, answer, paymentReq, payment) ==
    [pc |-> pc, env |-> env, answer |-> answer, paymentReq |-> paymentReq,
     payment |-> payment, signed |-> 0, sent |-> 0, result |-> 0]

(* lines 653-657: the args of the ft_transfer call *)
TransferArgs(env, paymentReq, invoice) ==
    [json |-> "object", receiver_id |-> Field(env.SELLER_ACCOUNT_ID),
     receiverId |-> NoField, amount |-> JsString(paymentReq.amountExactAtomic),
     memo |-> <<"x402 payment ", invoice.id>>]

(* lines 648-660: the delegate action, a function call on TOKEN_ACCOUNT_ID *)
(* signed as sender                                                        *)
BuyerDelegate(sender, env, paymentReq, invoice) ==
    SignedDelegate(sender, env.TOKEN_ACCOUNT_ID,
        << FunctionCallAction("ft_transfer", TransferArgs(env, paymentReq, invoice)) >>,
        1)

(* lines 663-670: the x-payment header's content *)
BuyerPayment(sender, env, paymentReq, invoice) ==
    [isObject |-> TRUE, scheme |-> "near-delegate-exact",
     network |-> paymentReq.network, asset |-> paymentReq.asset,
     payTo |-> paymentReq.payTo,
     delegateB64 |-> Blob("intact", BuyerDelegate(sender, env, paymentReq, invoice)),
     invoiceId |-> invoice.id, maxAmountRequired |-> ""]

(* lines 629-640: the first fetch, and the choice of accepts[0] *)
BuyerFetch ==
    /\ buyer.pc = "start"
    /\ buyer' =
         IF buyer.answer.status # 402 THEN [buyer EXCEPT !.pc = "stopped"]
         ELSE IF buyer.answer.accepts = <<>> THEN [buyer EXCEPT !.pc = "stopped"]
         ELSE [buyer EXCEPT !.pc = "challenged",
                            !.paymentReq = buyer.answer.accepts[1]]
    /\ UNCHANGED <<vIn, vOut, facLog, ledger, req, issued>>

(* lines 648-677: sign and send. near.transaction(TOKEN_ACCOUNT_ID) names  *)
(* the account near-kit signs as; the client is configured with            *)
(* defaultSignerId BUYER_ACCOUNT_ID: either may be the recorded sender     *)
BuyerPay ==
    /\ buyer.pc = "challenged"
    /\ \E sender \in {BuyerAccountId, buyer.env.TOKEN_ACCOUNT_ID} :
          buyer' = [buyer EXCEPT
                       !.pc = "sent",
                       !.signed = buyer.signed + 1,
                       !.sent = buyer.sent + 1,
                       !.payment = BuyerPayment(sender, buyer.env, buyer.paymentReq,
                                                buyer.answer.invoice)]
    /\ UNCHANGED <<vIn, vOut, facLog, ledger, req, issued>>

(* a client that signs and sends again when the answer is not 200 *)
BuyerReceive_Retrying ==
    /\ buyer.pc = "sent"
    /\ \E status \in {200, 402, 500} :
          buyer' = [buyer EXCEPT
                       !.pc = IF status = 200 THEN "done" ELSE "challenged",
                       !.result = status]
    /\ UNCHANGED <<vIn, vOut, facLog, ledger, req, issued>>

(* lines 680-706: the answer to the paying request is read and reported;   *)
(* main() returns                                                          *)
BuyerReceive ==
    /\ buyer.pc = "sent"
    /\ \E status \in {200, 402, 500} :
          buyer' = [buyer EXCEPT !.pc = "done", !.result = status]
    /\ UNCHANGED <<vIn, vOut, facLog, ledger, req, issued>>

(* the payment is verified against the entry it was built from *)
VerifyBuyerPayment ==
    /\ buyer.pc = "sent"
    /\ facLog = <<>>
    /\ HandleVerify(0, buyer.payment, buyer.paymentReq)
    /\ UNCHANGED <<buyer, vIn, vOut, req, issued>>

InitBuyer ==
    /\ InitIdleVerify
    /\ facLog = <<>>
    /\ ledger = <<>>
    /\ req = <<>>
    /\ issued = <<>>
    /\ buyer \in { Buyer("start", env, answer, NoDetails, NoPayload) :
                     env \in BuyerEnvs, answer \in FirstAnswers }

NextBuyer == BuyerFetch \/ BuyerPay \/ BuyerReceive \/ VerifyBuyerPayment
SpecBuyer == InitBuyer /\ [][NextBuyer]_vars

(***************************************************************************)
(* Properties of verify, stated on the call vIn -> vOut.                   *)
(*                                                                         *)
(* What the claims speak of, read off the input alone.                     *)
(***************************************************************************)
InPayload == vIn.payload
InRequired == vIn.details
InBlob == vIn.payload.delegateB64
InActions == InBlob.body.actions
Answer == vOut.response

EchoedFieldsMatch ==
    /\ InPayload.asset = InRequired.asset
    /\ InPayload.payTo = InRequired.payTo
    /\ InPayload.network = InRequired.network

Decodable == InBlob.kind = "intact"

(* sub-action i is a transfer-type call whose args name payTo as recipient *)
TransfersToPayTo(i) ==
    /\ InActions[i].functionCall
    /\ InActions[i].methodName \in {"ft_transfer", "ft_transfer_call"}
    /\ InActions[i].args.json = "object"
    /\ \/ /\ InActions[i].args.receiver_id.present
          /\ InActions[i].args.receiver_id.id # ""
          /\ InActions[i].args.receiver_id.id = InRequired.payTo
       \/ /\ ~(InActions[i].args.receiver_id.present /\ InActions[i].args.receiver_id.id # "")
          /\ InActions[i].args.receiverId.present
          /\ InActions[i].args.receiverId.id = InRequired.payTo

MatchingIndices == { i \in 1..Len(InActions) : TransfersToPayTo(i) }

(* a plain run of decimal digits, and the integer it denotes *)
IsPlainInteger(text) == text # <<>> /\ AllDigits(text)
DenotedInteger(text) == StripLeadingZeros(text)

(* sub-action i carries, as a JSON string or a JSON number, the integer n *)
CarriesAmount(i, n) ==
    /\ InActions[i].args.amount.t \in {"string", "number"}
    /\ IsPlainInteger(InActions[i].args.amount.s)
    /\ DenotedInteger(InActions[i].args.amount.s) = n

(* the scan meets text it cannot parse at sub-action i *)
UnparseableAt(i) ==
    /\ InActions[i].functionCall
    /\ InActions[i].methodName \in {"ft_transfer", "ft_transfer_call"}
    /\ \/ InActions[i].args.json # "object"
       \/ TransfersToPayTo(i) /\ BigIntOfAmountOrZero(InActions[i].args.amount).thrown

(* the largest element of a non-empty set of indices *)
MaxOf(S) == CHOOSE i \in S : \A j \in S : j <= i

(* the amount of the last sub-action that transfers to payTo is not the    *)
(* required amount (text that is no integer equals nothing)                *)
ObservedAmountDiffers ==
    LET observed == BigIntOfAmountOrZero(InActions[MaxOf(MatchingIndices)].args.amount)
        wanted   == BigIntOfString(InRequired.amountExactAtomic)
    IN  \/ observed.thrown
        \/ wanted.thrown
        \/ observed.neg # wanted.neg
        \/ observed.mag # wanted.mag

(* The error of the first violated rule, in the order of the seven rules;  *)
(* "" when no rule is violated.                                            *)
FirstViolatedRule ==
    IF InPayload.asset # InRequired.asset THEN "Asset mismatch"
    ELSE IF InPayload.payTo # InRequired.payTo THEN "Recipient mismatch"
    ELSE IF InPayload.network # InRequired.network THEN "Network mismatch"
    ELSE IF ~Decodable THEN DecodeErrorMessage
    ELSE IF InBlob.body.receiverId # InRequired.asset
         THEN "Delegate must target token contract"
    ELSE IF MatchingIndices = {} THEN "No transfer to seller found"
    ELSE IF ObservedAmountDiffers THEN "Amount mismatch"
    ELSE ""

UnparseableIndices == { i \in 1..Len(InActions) : UnparseableAt(i) }
MinOf(S) == CHOOSE i \in S : \A j \in S : i <= j

ParseErrorAt(i) ==
    IF InActions[i].args.json = "invalid" THEN JsonSyntaxError
    ELSE IF InActions[i].args.json = "null" THEN NullTypeError
    ELSE BigIntOfAmountOrZero(InActions[i].args.amount).error

(* The same order with the steps that parse text put in their place: the   *)
(* required amount after the target check, the sub-actions during the scan *)
FirstFailingStep ==
    IF InPayload.asset # InRequired.asset THEN "Asset mismatch"
    ELSE IF InPayload.payTo # InRequired.payTo THEN "Recipient mismatch"
    ELSE IF InPayload.network # InRequired.network THEN "Network mismatch"
    ELSE IF ~Decodable THEN DecodeErrorMessage
    ELSE IF InBlob.body.receiverId # InRequired.asset
         THEN "Delegate must target token contract"
    ELSE IF BigIntOfString(InRequired.amountExactAtomic).thrown
         THEN BigIntOfString(InRequired.amountExactAtomic).error
    ELSE IF UnparseableIndices # {} THEN ParseErrorAt(MinOf(UnparseableIndices))
    ELSE IF MatchingIndices = {} THEN "No transfer to seller found"
    ELSE IF ObservedAmountDiffers THEN "Amount mismatch"
    ELSE ""

(* C2 (as claimed): when the echoed fields match and the authorization      *)
(* targets the asset contract and its one transfer sub-action to payTo      *)
(* carries the integer A', verify succeeds if and only if A' is the         *)
(* required integer A; so A' = A+1 and A' = A-1 never verify.               *)
C2_Exactness ==
    \A i \in 1..Len(InActions) :
        ( /\ vOut.done
          /\ EchoedFieldsMatch
          /\ Decodable
          /\ InBlob.body.receiverId = InRequired.asset
          /\ IsPlainInteger(InRequired.amountExactAtomic)
          /\ MatchingIndices = {i}
          /\ UnparseableIndices = {}
          /\ IsPlainInteger(InActions[i].args.amount.s)
          /\ InActions[i].args.amount.t \in {"string", "number"} )
        => ( Answer.valid <=>
               CarriesAmount(i, DenotedInteger(InRequired.amountExactAtomic)) )

C4_WrongTargetNeverVerifies ==
    (vOut.done /\ Decodable /\ InBlob.body.receiverId # InRequired.asset)
        => ~Answer.valid

(* an authorization that pays the seller the required amount, aimed at      *)
(* another contract, is rejected for its target                             *)
C4_Witness ==
    /\ vOut.done
    /\ EchoedFieldsMatch
    /\ Decodable
    /\ InBlob.body.receiverId # InRequired.asset
    /\ Len(InActions) = 1
    /\ TransfersToPayTo(1)
    /\ IsPlainInteger(InRequired.amountExactAtomic)
    /\ InActions[1].args.amount.t = "string"
    /\ CarriesAmount(1, DenotedInteger(InRequired.amountExactAtomic))
    /\ ~Answer.valid
    /\ Answer.error = "Delegate must target token contract"

(* C9: when exactly one of payload.asset, payload.payTo, payload.network    *)
(* differs from the requirements, verify fails with that field's own error, *)
(* whatever the authorization blob holds.                                   *)
C9_FieldIsolation ==
    vOut.done =>
        /\ ( /\ InPayload.asset # InRequired.asset
             /\ InPayload.payTo = InRequired.payTo
             /\ InPayload.network = InRequired.network )
           => (~Answer.valid /\ Answer.error = "Asset mismatch")
        /\ ( /\ InPayload.asset = InRequired.asset
             /\ InPayload.payTo # InRequired.payTo
             /\ InPayload.network = InRequired.network )
           => (~Answer.valid /\ Answer.error = "Recipient mismatch")
        /\ ( /\ InPayload.asset = InRequired.asset
             /\ InPayload.payTo = InRequired.payTo
             /\ InPayload.network # InRequired.network )
           => (~Answer.valid /\ Answer.error = "Network mismatch")

(* only the network differs, on an authorization that would verify          *)
C9_Witness ==
    /\ vOut.done
    /\ InPayload.asset = InRequired.asset
    /\ InPayload.payTo = InRequired.payTo
    /\ InPayload.network # InRequired.network
    /\ Decodable
    /\ InBlob.body.receiverId = InRequired.asset
    /\ Len(InActions) = 1
    /\ TransfersToPayTo(1)
    /\ IsPlainInteger(InRequired.amountExactAtomic)
    /\ InActions[1].args.amount.t = "string"
    /\ CarriesAmount(1, DenotedInteger(InRequired.amountExactAtomic))
    /\ Answer.error = "Network mismatch"

(***************************************************************************)
(* Properties of the facilitator's handlers, stated on facLog and ledger.  *)
(***************************************************************************)
Undecodable(b64) == b64.kind # "intact"

SubmissionsOf(k) == { j \in 1..Len(ledger) : ledger[j].call = k }

(* C10: POST /verify and POST /settle given a blob that does not decode     *)
(* always answer a structured failure with status 400 ({valid:false, error} *)
(* resp. {ok:false, error}); no exception leaves the handler, calls made    *)
(* afterwards are answered too, and settle submits nothing to the ledger.   *)
C10_DecodeRobustness ==
    \A k \in 1..Len(facLog) :
        /\ facLog[k].op = "verify" =>
              /\ facLog[k].verifyResponse.status \in {200, 400}
              /\ facLog[k].verifyResponse.json
        /\ facLog[k].op = "settle" =>
              /\ facLog[k].settleResponse.status \in {200, 400}
              /\ facLog[k].settleResponse.json
        /\ (facLog[k].op = "verify" /\ Undecodable(facLog[k].delegateB64)) =>
              /\ facLog[k].verifyResponse.status = 400
              /\ ~facLog[k].verifyResponse.valid
              /\ facLog[k].verifyResponse.error # ""
        /\ (facLog[k].op = "settle" /\ Undecodable(facLog[k].delegateB64)) =>
              /\ facLog[k].settleResponse.status = 400
              /\ ~facLog[k].settleResponse.ok
              /\ facLog[k].settleResponse.error # ""
              /\ SubmissionsOf(k) = {}

(* a truncated blob is refused by /verify (with the decode error, all else  *)
(* matching) and by /settle, and a later /settle call is served and         *)
(* submitted to the ledger                                                  *)
C10_Witness ==
    /\ Len(facLog) = 3
    /\ facLog[1].op = "verify"
    /\ facLog[1].delegateB64.kind = "truncated"
    /\ facLog[1].verifyResponse.error = DecodeErrorMessage
    /\ facLog[2].op = "settle"
    /\ facLog[2].delegateB64.kind = "truncated"
    /\ facLog[2].settleResponse.error = DecodeErrorMessage
    /\ facLog[3].op = "settle"
    /\ facLog[3].settleResponse.ok
    /\ Len(ledger) = 1

(***************************************************************************)
(* Properties of the seller's handler, stated on req, facLog and ledger.   *)
(***************************************************************************)
RequestIds == 1..Len(req)

VerifyCallsOf(r) ==
    { k \in 1..Len(facLog) : facLog[k].op = "verify" /\ facLog[k].from = r }

SettleCallsOf(r) ==
    { k \in 1..Len(facLog) : facLog[k].op = "settle" /\ facLog[k].from = r }

LedgerSubmissionsOf(r) ==
    { j \in 1..Len(ledger) : ledger[j].call \in SettleCallsOf(r) }

Answered(r) == req[r].pc = "done"

(* C1: a request is answered 200 with the resource only if, in that same    *)
(* request, verify returned valid=true and, after it, settle returned       *)
(* ok=true.                                                                 *)
C1_ResourceOnlyAfterSettlement ==
    \A r \in RequestIds :
        (req[r].response.status = 200 \/ req[r].response.kind = "resource") =>
            /\ req[r].verification.valid
            /\ req[r].settlement.ok
            /\ \E k \in VerifyCallsOf(r), l \in SettleCallsOf(r) :
                  /\ k < l
                  /\ facLog[k].verifyResponse.valid
                  /\ facLog[l].settleResponse.ok

(* a request answered 200 with the resource and the receipt *)
C1_Witness ==
    \E r \in RequestIds :
        /\ req[r].response.status = 200
        /\ req[r].response.kind = "resource"
        /\ req[r].response.receipt.present
        /\ LedgerSubmissionsOf(r) # {}

(* C5: when verify reports the payment invalid, the seller answers 402      *)
(* PAYMENT_INVALID and never calls settle for that request, so nothing is   *)
(* submitted to the ledger for it.                                          *)
C5_InvalidMeansNoSettle ==
    \A r \in RequestIds :
        /\ (\E k \in VerifyCallsOf(r) : ~facLog[k].verifyResponse.valid) =>
              /\ SettleCallsOf(r) = {}
              /\ LedgerSubmissionsOf(r) = {}
              /\ req[r].pc \in {"verifyAnswered", "done"}
        /\ (req[r].verification.status # 0 /\ ~req[r].verification.valid) =>
              /\ Answered(r)
              /\ req[r].response.status = 402
              /\ req[r].response.error = "PAYMENT_INVALID"

(* a payment of 999 is answered PAYMENT_INVALID *)
C5_Witness ==
    \E r \in RequestIds :
        /\ Answered(r)
        /\ req[r].response.error = "PAYMENT_INVALID"
        /\ req[r].response.details = "Amount mismatch"
        /\ \E k \in VerifyCallsOf(r) : facLog[k].verifyResponse.error = "Amount mismatch"

(* C6: when verify succeeded and settle reports failure, the seller answers *)
(* 402 PAYMENT_NOT_SETTLED, without the resource body and without the       *)
(* x-payment-response header.                                               *)
C6_NotSettledMeansNoResource ==
    \A r \in RequestIds :
        /\ (\E l \in SettleCallsOf(r) : ~facLog[l].settleResponse.ok) =>
              /\ req[r].response.kind # "resource"
              /\ ~req[r].response.receipt.present
              /\ req[r].response.status # 200
        /\ (req[r].settlement.status # 0 /\ ~req[r].settlement.ok) =>
              /\ req[r].verification.valid
              /\ Answered(r)
              /\ req[r].response.status = 402
              /\ req[r].response.error = "PAYMENT_NOT_SETTLED"
              /\ req[r].response.kind = "error"
              /\ ~req[r].response.receipt.present

(* a verified payment the ledger rejects is answered PAYMENT_NOT_SETTLED *)
C6_Witness ==
    \E r \in RequestIds :
        /\ Answered(r)
        /\ req[r].verification.valid
        /\ req[r].response.error = "PAYMENT_NOT_SETTLED"
        /\ \E j \in LedgerSubmissionsOf(r) : ~ledger[j].accepted

(* C7: every answer of /weather has status 200 or 402; a header that does   *)
(* not decode, a failing fetch or a non-JSON answer of the facilitator, and *)
(* a failed verification or settlement all give 402 with an error reason.   *)
C7_Only200Or402 ==
    \A r \in RequestIds :
        /\ ~Answered(r) => req[r].response = NoResponse
        /\ Answered(r) =>
              /\ req[r].response.status \in {200, 402}
              /\ req[r].header.kind = "garbage" =>
                    /\ req[r].response.status = 402
                    /\ req[r].response.error = "PAYMENT_ERROR"
              /\ req[r].fault # "" =>
                    /\ req[r].response.status = 402
                    /\ req[r].response.error = "PAYMENT_ERROR"
              /\ ( \/ (\E k \in VerifyCallsOf(r) : ~facLog[k].verifyResponse.valid)
                   \/ (\E l \in SettleCallsOf(r) : ~facLog[l].settleResponse.ok) ) =>
                    /\ req[r].response.status = 402
                    /\ req[r].response.error \in
                          {"PAYMENT_INVALID", "PAYMENT_NOT_SETTLED", "PAYMENT_ERROR"}

(* one request with an undecodable header and one whose fetch failed, both  *)
(* answered 402 PAYMENT_ERROR                                               *)
C7_Witness ==
    \E r1, r2 \in RequestIds :
        /\ Answered(r1) /\ Answered(r2)
        /\ req[r1].header.kind = "garbage"
        /\ req[r1].response.status = 402
        /\ req[r2].fault = "fetch failed"
        /\ req[r2].response.status = 402
        /\ req[r2].response.error = "PAYMENT_ERROR"

(* C8: a request without x-payment header is answered 402 with a non-empty  *)
(* accepts list and an invoice {id, createdAt} whose id no other challenge  *)
(* carries; no verify or settle call is made for it.                        *)
C8_StatelessChallenge ==
    \A r \in RequestIds :
        req[r].header.kind = "absent" =>
            /\ Answered(r)
            /\ req[r].response.status = 402
            /\ req[r].response.kind = "challenge"
            /\ Len(req[r].response.accepts) >= 1
            /\ req[r].response.invoice.id # NoInvoice.id
            /\ req[r].response.invoice.createdAt \in Timestamps
            /\ VerifyCallsOf(r) = {}
            /\ SettleCallsOf(r) = {}
            /\ LedgerSubmissionsOf(r) = {}
            /\ \A q \in RequestIds :
                  (q # r /\ req[q].response.kind = "challenge") =>
                      req[q].response.invoice.id # req[r].response.invoice.id

(* two challenges, with different invoice ids *)
C8_Witness ==
    \E r, q \in RequestIds :
        /\ r # q
        /\ req[r].header.kind = "absent"
        /\ req[q].header.kind = "absent"
        /\ req[r].response.kind = "challenge"
        /\ req[q].response.kind = "challenge"
        /\ req[r].response.invoice.id # req[q].response.invoice.id
        /\ facLog = <<>>

(***************************************************************************)
(* Properties of the facilitator's effect on the ledger.                   *)
(***************************************************************************)
LastCall == facLog'[Len(facLog')]

(* C11: a call of POST /verify, whatever its input and its answer, leaves   *)
(* the ledger as it was; the ledger changes only in a step that answers a   *)
(* POST /settle, and every submission it holds was made by a settle call.   *)
C11_VerifyLeavesLedger ==
    [][ /\ (Len(facLog') = Len(facLog) + 1 /\ LastCall.op = "verify")
            => ledger' = ledger
        /\ ledger' # ledger
            => /\ Len(facLog') = Len(facLog) + 1
               /\ LastCall.op = "settle"
               /\ \A j \in 1..Len(ledger') : facLog'[ledger'[j].call].op = "settle"
      ]_vars

(* a valid and an invalid payment were both verified, and the ledger holds  *)
(* nothing                                                                  *)
C11_Witness ==
    /\ \E k \in 1..Len(facLog) :
          facLog[k].op = "verify" /\ facLog[k].verifyResponse.valid
    /\ \E k \in 1..Len(facLog) :
          facLog[k].op = "verify" /\ ~facLog[k].verifyResponse.valid
    /\ ledger = <<>>

(* every rule of the validation order is satisfied by the input: the fields *)
(* match, the blob decodes, it targets the asset contract, some sub-action  *)
(* transfers to payTo, and the last such one carries the required integer   *)
AllRulesPass ==
    /\ EchoedFieldsMatch
    /\ Decodable
    /\ InBlob.body.receiverId = InRequired.asset
    /\ MatchingIndices # {}
    /\ IsPlainInteger(InRequired.amountExactAtomic)
    /\ CarriesAmount(MaxOf(MatchingIndices),
                     DenotedInteger(InRequired.amountExactAtomic))

(* C12 (as claimed): when every validation rule passes, POST /verify        *)
(* answers {valid:true, sender} with the sender of the decoded              *)
(* authorization; such an authorization is never answered valid:false.      *)
C12_ValidWhenAllRulesPass ==
    (vOut.done /\ AllRulesPass) =>
        /\ Answer.valid
        /\ Answer.status = 200
        /\ Answer.sender = InBlob.body.senderId

(* The end-to-end scenario: the requirements, and a payment whose          *)
(* authorization targets "tok" and holds the one transfer                  *)
(* ft_transfer {receiver_id: recipient, amount: amount}                    *)
ScenarioRequirements ==
    /\ InRequired.asset = "tok"
    /\ InRequired.payTo = "seller"
    /\ InRequired.amountExactAtomic = Amt1000

ScenarioPayment(payTo, recipient, amount) ==
    /\ InPayload.asset = "tok"
    /\ InPayload.network = InRequired.network
    /\ InPayload.payTo = payTo
    /\ Decodable
    /\ InBlob.body.receiverId = "tok"
    /\ InActions =
         << FunctionCallAction("ft_transfer",
                ArgsObject(Field(recipient), NoField, JsString(amount))) >>

(* C13 (as claimed): the authorization that verifies when it transfers 1000 *)
(* to "seller" is answered "Amount mismatch" when its amount is "999" and   *)
(* "Recipient mismatch" when its recipient is "other".                      *)
C13_ScenarioAsClaimed ==
    (vOut.done /\ ScenarioRequirements) =>
        /\ ScenarioPayment("seller", "seller", Amt1000) => Answer.valid
        /\ ScenarioPayment("seller", "seller", Amt999) =>
              ~Answer.valid /\ Answer.error = "Amount mismatch"
        /\ (\E payTo \in {"seller", "other"} :
                ScenarioPayment(payTo, "other", Amt1000)) =>
              ~Answer.valid /\ Answer.error = "Recipient mismatch"

(* C13 (amended): "Recipient mismatch" answers a payload whose payTo is     *)
(* "other"; when only the transfer inside the authorization names "other"   *)
(* and the payload echoes payTo "seller", the answer is "No transfer to     *)
(* seller found".                                                           *)
C13_Scenario ==
    (vOut.done /\ ScenarioRequirements) =>
        /\ ScenarioPayment("seller", "seller", Amt1000) =>
              Answer.valid /\ Answer.sender = InBlob.body.senderId
        /\ ScenarioPayment("seller", "seller", Amt999) =>
              ~Answer.valid /\ Answer.error = "Amount mismatch"
        /\ (\E recipient \in {"seller", "other"} :
                ScenarioPayment("other", recipient, Amt1000)) =>
              ~Answer.valid /\ Answer.error = "Recipient mismatch"
        /\ ScenarioPayment("seller", "other", Amt1000) =>
              ~Answer.valid /\ Answer.error = "No transfer to seller found"

(* the payment made out to "other" throughout is answered "Recipient        *)
(* mismatch"                                                                *)
C13_Witness ==
    /\ vOut.done
    /\ ScenarioRequirements
    /\ ScenarioPayment("other", "other", Amt1000)
    /\ Answer.error = "Recipient mismatch"

(* the rules that come before the scan are satisfied *)
RulesBeforeScanPass ==
    /\ EchoedFieldsMatch
    /\ Decodable
    /\ InBlob.body.receiverId = InRequired.asset

IsChallenge(r) == req[r].response.kind = "challenge"

(* C15: two challenges for the same resource URL carry identical accepts    *)
(* entries (only the invoice differs), and the requirements the seller      *)
(* passes to verify for a paid request are the accepts entry of a challenge *)
(* for that same resource.                                                  *)
C15_RequirementsDeterministic ==
    \A r, q \in RequestIds :
        (IsChallenge(q) /\ req[r].url = req[q].url) =>
            /\ Len(req[q].response.accepts) = 1
            /\ IsChallenge(r) => req[r].response.accepts = req[q].response.accepts
            /\ \A k \in VerifyCallsOf(r) :
                  facLog[k].details = req[q].response.accepts[1]

(* a challenge was issued and then a paid request for the same resource was *)
(* verified against the entry that challenge carried                        *)
C15_Witness ==
    \E r, q \in RequestIds :
        /\ q < r
        /\ IsChallenge(q)
        /\ req[r].url = req[q].url
        /\ req[r].header.kind = "object"
        /\ \E k \in VerifyCallsOf(r) :
              /\ facLog[k].details = req[q].response.accepts[1]
              /\ facLog[k].details.amountExactAtomic = PriceAtomic
              /\ facLog[k].verifyResponse.valid

(***************************************************************************)
(* Properties of settle.                                                   *)
(***************************************************************************)
IsSettleCall(k) == facLog[k].op = "settle"

(* C17: when the blob decodes and the ledger accepts the submission, POST   *)
(* /settle returns the receipt: ok=true with the transaction hash, the      *)
(* outcome identifier and the execution status the ledger returned; it      *)
(* never answers ok=false for an accepted submission.                       *)
C17_AcceptedMeansReceipt ==
    \A k \in 1..Len(facLog) :
        (IsSettleCall(k) /\ ~Undecodable(facLog[k].delegateB64)) =>
            /\ Cardinality(SubmissionsOf(k)) = 1
            /\ \A j \in SubmissionsOf(k) :
                  ledger[j].accepted =>
                      /\ facLog[k].settleResponse.ok
                      /\ facLog[k].settleResponse.status = 200
                      /\ facLog[k].settleResponse.txHash = ledger[j].hash
                      /\ facLog[k].settleResponse.txHash # NoHash
                      /\ facLog[k].settleResponse.blockHash = ledger[j].outcomeId
                      /\ facLog[k].settleResponse.blockHash # NoHash
                      /\ facLog[k].settleResponse.execStatus = ledger[j].status
                      /\ facLog[k].settleResponse.execStatus # NoStatus

(* two authorizations were settled, each with its own receipt *)
C17_Witness ==
    \E k, l \in 1..Len(facLog) :
        /\ k < l
        /\ IsSettleCall(k) /\ IsSettleCall(l)
        /\ facLog[k].settleResponse.ok /\ facLog[l].settleResponse.ok
        /\ facLog[k].settleResponse.txHash # facLog[l].settleResponse.txHash
        /\ facLog[k].settleResponse.blockHash # facLog[k].settleResponse.txHash

(* C19: every submission to the ledger is signed by the relayer account of  *)
(* the facilitator's configuration, whatever the settle request held; any   *)
(* two submissions have the same relayer.                                   *)
C19_RelayerIsConfigured ==
    \A i, j \in 1..Len(ledger) :
        /\ ledger[i].signer = RelayerAccountId
        /\ ledger[i].signer = ledger[j].signer

(* two submissions for authorizations of different senders, one accepted    *)
(* and one not, both made as the relayer                                    *)
C19_Witness ==
    \E i, j \in 1..Len(ledger) :
        /\ ledger[i].delegate.senderId = "buyer"
        /\ ledger[j].delegate.senderId = "mallory"
        /\ ledger[i].accepted # ledger[j].accepted
        /\ ledger[i].signer = RelayerAccountId
        /\ ledger[j].signer = RelayerAccountId

(* C18: when the ledger rejects a submission, settle answers                *)
(* {ok:false, error} with the ledger's error message and submits nothing    *)
(* more; a POST /settle call makes at most one ledger submission, and a     *)
(* request to the seller causes at most one verify call and at most one     *)
(* settle call (none at all when it carries no payment).                    *)
C18_NoAutomaticRetry ==
    /\ \A k \in 1..Len(facLog) :
          /\ Cardinality(SubmissionsOf(k)) <= 1
          /\ ~IsSettleCall(k) => SubmissionsOf(k) = {}
          /\ \A j \in SubmissionsOf(k) :
                ~ledger[j].accepted =>
                    /\ ~facLog[k].settleResponse.ok
                    /\ facLog[k].settleResponse.status = 400
                    /\ facLog[k].settleResponse.error = ledger[j].error
                    /\ ledger[j].error # ""
    /\ \A r \in RequestIds :
          /\ Cardinality(VerifyCallsOf(r)) <= 1
          /\ Cardinality(SettleCallsOf(r)) <= 1
          /\ Cardinality(LedgerSubmissionsOf(r)) <= 1
          /\ req[r].header.kind \in {"absent", "empty"} =>
                VerifyCallsOf(r) = {} /\ SettleCallsOf(r) = {}
    /\ Len(ledger) <= Len(facLog)

(* the ledger rejected the one submission of a request, which was answered  *)
(* with the ledger's message after one verify call and one settle call      *)
C18_Witness ==
    \E r \in RequestIds :
        /\ Answered(r)
        /\ Cardinality(VerifyCallsOf(r)) = 1
        /\ Cardinality(SettleCallsOf(r)) = 1
        /\ Cardinality(LedgerSubmissionsOf(r)) = 1
        /\ \E j \in LedgerSubmissionsOf(r) :
              /\ ~ledger[j].accepted
              /\ ledger[j].error = "NotEnoughBalance"
        /\ req[r].response.error = "PAYMENT_NOT_SETTLED"
        /\ req[r].response.details = "NotEnoughBalance"

(***************************************************************************)
(* Properties of the receipt.                                              *)
(***************************************************************************)
HasMember(members, key) == \E i \in 1..Len(members) : members[i].key = key
MemberOf(members, key) ==
    members[CHOOSE i \in 1..Len(members) : members[i].key = key]

(* C16: on a 200 response the x-payment-response header, decoded by the     *)
(* client (base64, then JSON), is the receipt the facilitator's settle      *)
(* returned for that request, member for member, with ok=true and the same  *)
(* txHash.                                                                  *)
C16_ReceiptRoundTrip ==
    \A r \in RequestIds :
        req[r].response.status = 200 =>
            /\ req[r].response.receipt.present
            /\ \E l \in SettleCallsOf(r) :
                  LET sent == facLog[l].settleResponse
                      got  == ClientReceipt(req[r].response.receipt.value)
                  IN  /\ sent.ok
                      /\ got.ok
                      /\ got.members = ReceiptObject(sent)
                      /\ HasMember(got.members, <<"o", "k">>)
                      /\ MemberOf(got.members, <<"o", "k">>).bool
                      /\ HasMember(got.members, <<"t", "x", "H", "a", "s", "h">>)
                      /\ MemberOf(got.members, <<"t", "x", "H", "a", "s", "h">>).text
                            = sent.txHash
                      /\ sent.txHash # NoHash
                      /\ req[r].response.paid.tx = sent.txHash

(* after a submission the ledger rejected, a second request was settled     *)
(* and answered 200 with a header that decodes to its receipt               *)
C16_Witness ==
    \E r \in RequestIds :
        /\ req[r].response.status = 200
        /\ req[r].settlement.txHash = TxHash(2)
        /\ ClientReceipt(req[r].response.receipt.value).ok
        /\ ClientReceipt(req[r].response.receipt.value).members
              = ReceiptObject(req[r].settlement)

(***************************************************************************)
(* Properties of the payment client.                                       *)
(***************************************************************************)
BuyerHasPaid == buyer.pc = "sent"
BuyerTransfer == buyer.payment.delegateB64.body.actions[1]

(* C20 (as claimed): the client builds its authorization from the first     *)
(* accepts entry: one transfer to that entry's payTo, of that entry's       *)
(* amountExactAtomic, on that entry's asset contract, tagged with the       *)
(* invoice id; the payload echoes the entry's network, asset and payTo and  *)
(* passes verify against that entry.                                        *)
C20_PaymentFollowsFirstEntry ==
    BuyerHasPaid =>
        LET entry == buyer.answer.accepts[1] IN
        /\ buyer.paymentReq = entry
        /\ buyer.payment.network = entry.network
        /\ buyer.payment.asset = entry.asset
        /\ buyer.payment.payTo = entry.payTo
        /\ buyer.payment.invoiceId = buyer.answer.invoice.id
        /\ buyer.payment.delegateB64.body.receiverId = entry.asset
        /\ Len(buyer.payment.delegateB64.body.actions) = 1
        /\ BuyerTransfer.methodName = "ft_transfer"
        /\ BuyerTransfer.args.receiver_id = Field(entry.payTo)
        /\ BuyerTransfer.args.amount = JsString(entry.amountExactAtomic)
        /\ BuyerTransfer.args.memo[2] = buyer.answer.invoice.id
        /\ \A k \in 1..Len(facLog) :
              /\ facLog[k].details = entry
              /\ facLog[k].verifyResponse.valid

(* C21: the client signs and sends only after a 402 challenge that holds   *)
(* an accepts entry. After any other first answer it signs nothing and     *)
(* sends no request with a payment; otherwise it sends one such request,   *)
(* and none after the answer to it, whatever that answer's status.         *)
C21_PaysOnceAfterChallenge ==
    /\ (buyer.answer.status # 402 \/ buyer.answer.accepts = <<>>)
          => /\ buyer.signed = 0
             /\ buyer.sent = 0
             /\ buyer.pc \in {"start", "stopped"}
    /\ buyer.pc \in {"start", "stopped", "challenged"}
          => buyer.signed = 0 /\ buyer.sent = 0
    /\ buyer.pc \in {"sent", "done"}
          => /\ buyer.answer.status = 402
             /\ buyer.answer.accepts # <<>>
             /\ buyer.signed = 1
             /\ buyer.sent = 1
    /\ buyer.result # 0 => buyer.pc = "done"

(* the paying request was answered 402 and main() has returned *)
C21_Witness ==
    /\ buyer.pc = "done"
    /\ buyer.result = 402
    /\ buyer.sent = 1


(***************************************************************************)
(* Properties of repeated and concurrent presentations of one payment.     *)
(***************************************************************************)
CarriesPayment(r) == req[r].header.kind = "object"

(* r2 presents the payment r1 presented, and r2's verify call comes after  *)
(* the settle call of r1 that returned ok                                  *)
PresentedAgainAfterSettled(r1, r2) ==
    /\ r1 # r2
    /\ CarriesPayment(r1) /\ CarriesPayment(r2)
    /\ req[r1].payment = req[r2].payment
    /\ \E k1 \in SettleCallsOf(r1), k2 \in VerifyCallsOf(r2) :
          facLog[k1].settleResponse.ok /\ k1 < k2

(* the answer to r follows the ledger's answer to r's submission *)
AnsweredAsLedgerDid(r) ==
    \A j \in LedgerSubmissionsOf(r) :
        IF ledger[j].accepted
        THEN /\ req[r].response.status = 200
             /\ req[r].response.kind = "resource"
        ELSE /\ req[r].response.status = 402
             /\ req[r].response.error = "PAYMENT_NOT_SETTLED"
             /\ req[r].response.details = ledger[j].error

(* C22: a payment presented again after it was settled is verified again,  *)
(* with the result of the first verification, and its authorization is     *)
(* submitted to the ledger again; the request is answered 200 when the     *)
(* ledger accepts that submission and 402 PAYMENT_NOT_SETTLED with the      *)
(* ledger's message when it does not, as every request is.                 *)
C22_NoDeduplication ==
    /\ \A r \in RequestIds :
          (Answered(r) /\ req[r].fault = "") => AnsweredAsLedgerDid(r)
    /\ \A r1 \in RequestIds, r2 \in RequestIds :
        PresentedAgainAfterSettled(r1, r2) =>
            /\ \A k1 \in VerifyCallsOf(r1), k2 \in VerifyCallsOf(r2) :
                  /\ facLog[k2].verifyResponse = facLog[k1].verifyResponse
                  /\ facLog[k2].verifyResponse.valid
            /\ \A k \in SettleCallsOf(r2) :
                  /\ Cardinality(SubmissionsOf(k)) = 1
                  /\ \A j \in SubmissionsOf(k) :
                        ledger[j].delegate = req[r2].payment.delegateB64.body
            /\ (Answered(r2) /\ req[r2].fault = "") =>
                  /\ Cardinality(LedgerSubmissionsOf(r2)) = 1
                  /\ AnsweredAsLedgerDid(r2)

(* the same payment twice: the first request got the resource, the second  *)
(* was verified valid, submitted, rejected by the ledger and answered 402  *)
C22_Witness ==
    \E r1 \in RequestIds, r2 \in RequestIds :
        /\ PresentedAgainAfterSettled(r1, r2)
        /\ req[r1].response.status = 200
        /\ Answered(r2)
        /\ \E j \in LedgerSubmissionsOf(r2) : ledger[j].error = "InvalidNonce"
        /\ req[r2].response.error = "PAYMENT_NOT_SETTLED"

(***************************************************************************)
(* Properties of the required amount.                                      *)
(***************************************************************************)
(* C23 (as claimed): verify never succeeds against requirements whose       *)
(* amountExactAtomic is not the decimal text of a non-negative integer     *)
(* (empty, negative, fractional or non-numeric text).                      *)
C23_RequiredAmountIsNonNegativeInteger ==
    (vOut.done /\ ~IsPlainInteger(InRequired.amountExactAtomic)) => ~Answer.valid

(***************************************************************************)
(* Properties of the scan over the sub-actions.                            *)
(***************************************************************************)
RequiredAmountConverts == ~BigIntOfString(InRequired.amountExactAtomic).thrown

(* C24 (as claimed): when transfer-type sub-actions name payTo, the amount  *)
(* of the last of them is the observed amount: verify succeeds exactly      *)
(* when that amount is the required one, whatever the other sub-actions    *)
(* (transfers to payTo or to other recipients, calls of other methods).     *)
C24_LastMatchDecides ==
    (vOut.done /\ RulesBeforeScanPass /\ RequiredAmountConverts
       /\ MatchingIndices # {}
       /\ \A i \in 1..Len(InActions) :
             (InActions[i].functionCall /\ IsTransferMethod(InActions[i].methodName))
                => InActions[i].args.json = "object") =>
        (Answer.valid <=> ~ObservedAmountDiffers)

(* C24 (amended): the same, provided the scan meets no transfer-type        *)
(* sub-action whose args do not parse and no transfer to payTo whose        *)
(* amount does not convert; then a mismatch of the last matching amount is  *)
(* answered "Amount mismatch". A sub-action the scan cannot read rejects    *)
(* the authorization wherever it stands.                                    *)
C24_LastMatchWins ==
    (vOut.done /\ RulesBeforeScanPass /\ RequiredAmountConverts
       /\ MatchingIndices # {}) =>
        IF UnparseableIndices = {}
        THEN /\ Answer.valid <=> ~ObservedAmountDiffers
             /\ ~Answer.valid => Answer.error = "Amount mismatch"
        ELSE /\ ~Answer.valid
             /\ Answer.error = ParseErrorAt(MinOf(UnparseableIndices))

(* two transfers to payTo, 999 then 1000, against a required 1000: valid *)
C24_Witness ==
    /\ vOut.done
    /\ RulesBeforeScanPass
    /\ InRequired.amountExactAtomic = Amt1000
    /\ InActions = << TransferToSeller(JsString(Amt999)), TransferToSeller(JsString(Amt1000)) >>
    /\ Answer.valid

(***************************************************************************)
(* Properties of the advisory data.                                        *)
(***************************************************************************)
(* other values for the advisory fields, one field at a time and all at    *)
(* once                                                                    *)
AdvisoryVariants(payload, details) ==
    { [payload |-> [payload EXCEPT !.invoiceId = "inv-9"], details |-> details],
      [payload |-> [payload EXCEPT !.invoiceId = ""], details |-> details],
      [payload |-> [payload EXCEPT !.maxAmountRequired = "5"], details |-> details],
      [payload |-> [payload EXCEPT !.maxAmountRequired = ""], details |-> details],
      [payload |-> payload, details |-> [details EXCEPT !.maxTimeoutSeconds = 1]],
      [payload |-> payload, details |-> [details EXCEPT !.mimeType = "text/html"]],
      [payload |-> payload, details |-> [details EXCEPT !.resource = "/forecast"]],
      [payload |-> payload, details |-> [details EXCEPT !.description = "other"]],
      [payload |-> [payload EXCEPT !.invoiceId = "inv-9", !.maxAmountRequired = "5"],
       details |-> [details EXCEPT !.maxTimeoutSeconds = 1, !.mimeType = "text/html",
                                   !.resource = "/forecast", !.description = "other"]] }

SameAuthorization(r1, r2) ==
    /\ r1 # r2
    /\ CarriesPayment(r1) /\ CarriesPayment(r2)
    /\ req[r1].payment.delegateB64 = req[r2].payment.delegateB64

(* both requests were verified valid and have read the answer to their     *)
(* settle call                                                             *)
BothSettledOrNot(r1, r2) ==
    /\ Answered(r1) /\ Answered(r2)
    /\ req[r1].fault = "" /\ req[r2].fault = ""
    /\ req[r1].verification.valid /\ req[r2].verification.valid

(* C26: of two requests that carry the same authorization and both pass    *)
(* verify, both are submitted to the ledger, at most one is answered 200   *)
(* and each of the others is answered 402 PAYMENT_NOT_SETTLED, in whatever  *)
(* order their steps interleave.                                           *)
C26_AtMostOnePaidResponse ==
    \A r1 \in RequestIds, r2 \in RequestIds :
        SameAuthorization(r1, r2) =>
            /\ ~(req[r1].response.status = 200 /\ req[r2].response.status = 200)
            /\ BothSettledOrNot(r1, r2) =>
                  /\ Cardinality(LedgerSubmissionsOf(r1)) = 1
                  /\ Cardinality(LedgerSubmissionsOf(r2)) = 1
                  /\ \A j \in LedgerSubmissionsOf(r1) \cup LedgerSubmissionsOf(r2) :
                        ledger[j].delegate = req[r1].payment.delegateB64.body
                  /\ \A r \in {r1, r2} :
                        req[r].response.status # 200 =>
                            /\ req[r].response.status = 402
                            /\ req[r].response.error = "PAYMENT_NOT_SETTLED"

(* both requests passed verify before either was settled; both were        *)
(* submitted; the second got the resource and the first 402                *)
C26_Witness ==
    \E r1 \in RequestIds, r2 \in RequestIds :
        /\ SameAuthorization(r1, r2)
        /\ r1 < r2
        /\ BothSettledOrNot(r1, r2)
        /\ \A kv \in VerifyCallsOf(r1) \cup VerifyCallsOf(r2),
              ks \in SettleCallsOf(r1) \cup SettleCallsOf(r2) : kv < ks
        /\ Len(ledger) = 2
        /\ req[r2].response.status = 200
        /\ req[r1].response.error = "PAYMENT_NOT_SETTLED"
        /\ req[r1].response.details = "InvalidNonce"

(***************************************************************************)
(* Properties of the authorization on its way to the ledger.               *)
(***************************************************************************)
(* C27: the blob a request sends to settle is the delegateB64 of the       *)
(* payload it sent to verify, which is the one of its X-PAYMENT header;    *)
(* what is submitted to the ledger is the decoding of the blob the settle  *)
(* call received; a request that fails verification makes no settle call   *)
(* and no submission, and its payment stays as it was received.            *)
C27_AuthorizationUnaltered ==
    /\ \A r \in RequestIds :
          /\ req[r].payment = req[r].header.payment
          /\ \A kv \in VerifyCallsOf(r) :
                /\ facLog[kv].payload = req[r].header.payment
                /\ facLog[kv].delegateB64 = req[r].header.payment.delegateB64
          /\ \A ks \in SettleCallsOf(r) :
                /\ facLog[ks].delegateB64 = req[r].header.payment.delegateB64
                /\ \A kv \in VerifyCallsOf(r) :
                      facLog[ks].delegateB64 = facLog[kv].payload.delegateB64
          /\ (\E kv \in VerifyCallsOf(r) : ~facLog[kv].verifyResponse.valid) =>
                /\ SettleCallsOf(r) = {}
                /\ LedgerSubmissionsOf(r) = {}
    /\ \A j \in 1..Len(ledger) :
          /\ ledger[j].call \in 1..Len(facLog)
          /\ IsSettleCall(ledger[j].call)
          /\ decodeSignedDelegateAction(facLog[ledger[j].call].delegateB64).ok
          /\ ledger[j].delegate =
                decodeSignedDelegateAction(facLog[ledger[j].call].delegateB64).delegate

(* one request's authorization reached the ledger as it was presented;     *)
(* another, paying 999, was rejected by verify and went no further         *)
C27_Witness ==
    \E r1 \in RequestIds, r2 \in RequestIds :
        /\ \E j \in LedgerSubmissionsOf(r1) :
              /\ ledger[j].accepted
              /\ ledger[j].delegate = req[r1].header.payment.delegateB64.body
        /\ req[r2].header.payment.delegateB64 = Blob("intact", PayingDelegate(Amt999, 2))
        /\ req[r2].response.error = "PAYMENT_INVALID"
        /\ SettleCallsOf(r2) = {}

(***************************************************************************)
(* Properties of verify and settle as independent operations.              *)
(***************************************************************************)
IsVerifyCall(k) == facLog[k].op = "verify"

(* C28: a settle call with a decodable blob submits the decoded            *)
(* authorization to the ledger and answers as the ledger did, whatever     *)
(* verify calls came before it (none, or one that rejected the blob); a    *)
(* settle call with any other blob submits nothing; verify calls with the  *)
(* same inputs return the same result.                                     *)
C28_VerifyAndSettleIndependent ==
    /\ \A k \in 1..Len(facLog) :
          IsSettleCall(k) =>
             IF Undecodable(facLog[k].delegateB64)
             THEN /\ SubmissionsOf(k) = {}
                  /\ ~facLog[k].settleResponse.ok
             ELSE /\ Cardinality(SubmissionsOf(k)) = 1
                  /\ \A j \in SubmissionsOf(k) :
                        /\ ledger[j].delegate = facLog[k].delegateB64.body
                        /\ facLog[k].settleResponse.ok = ledger[j].accepted
                        /\ facLog[k].settleResponse.txHash = ledger[j].hash
                        /\ facLog[k].settleResponse.error = ledger[j].error
    /\ \A k1 \in 1..Len(facLog), k2 \in 1..Len(facLog) :
          (/\ IsVerifyCall(k1) /\ IsVerifyCall(k2)
           /\ facLog[k1].payload = facLog[k2].payload
           /\ facLog[k1].details = facLog[k2].details) =>
              facLog[k1].verifyResponse = facLog[k2].verifyResponse

(* verify rejects a payment of 999, settle then submits its blob and the   *)
(* ledger executes it, and verify rejects the same payment again           *)
C28_Witness ==
    /\ Len(facLog) = 3
    /\ IsVerifyCall(1) /\ IsSettleCall(2) /\ IsVerifyCall(3)
    /\ facLog[1].delegateB64 = Blob("intact", PayingDelegate(Amt999, 2))
    /\ ~facLog[1].verifyResponse.valid
    /\ facLog[1].verifyResponse.error = "Amount mismatch"
    /\ facLog[2].delegateB64 = facLog[1].delegateB64
    /\ facLog[2].settleResponse.ok
    /\ Len(ledger) = 1 /\ ledger[1].accepted
    /\ facLog[3].payload = facLog[1].payload
    /\ facLog[3].verifyResponse = facLog[1].verifyResponse

(***************************************************************************)
(* Properties of the answer to a paid request.                             *)
(***************************************************************************)
(* C29: when the ledger accepted the submission made for a request and the *)
(* facilitator's answers reached the seller, the request is answered 200   *)
(* with the resource and the receipt of that transaction, never 402.       *)
C29_PaidImpliesDelivered ==
    \A r \in RequestIds :
        (/\ Answered(r)
         /\ req[r].fault = ""
         /\ \E j \in LedgerSubmissionsOf(r) : ledger[j].accepted) =>
            /\ req[r].response.status = 200
            /\ req[r].response.kind = "resource"
            /\ req[r].response.receipt.present
            /\ \A j \in LedgerSubmissionsOf(r) :
                  /\ req[r].response.paid.tx = ledger[j].hash
                  /\ req[r].response.receipt.value =
                        ReceiptHeader(SettleReceipt(ledger[j]))

(* a paid request answered with the resource, while the other request of   *)
(* the run, whose submission the ledger rejected, is answered 402          *)
C29_Witness ==
    \E r1 \in RequestIds, r2 \in RequestIds :
        /\ Answered(r1) /\ req[r1].fault = ""
        /\ \E j \in LedgerSubmissionsOf(r1) : ledger[j].accepted
        /\ req[r1].response.status = 200
        /\ \E j \in LedgerSubmissionsOf(r2) : ~ledger[j].accepted
        /\ req[r2].response.status = 402

(***************************************************************************)
(* Properties of termination.                                              *)
(***************************************************************************)
(* the answer a request may end with, by its header *)
EndsAsItMay(r) ==
    IF req[r].header.kind \in {"absent", "empty"}
    THEN /\ req[r].response.status = 402
         /\ req[r].response.kind = "challenge"
    ELSE \/ /\ req[r].response.status = 200
            /\ req[r].response.kind = "resource"
         \/ /\ req[r].response.status = 402
            /\ req[r].response.kind = "error"
            /\ req[r].response.error \in
                  {"PAYMENT_INVALID", "PAYMENT_NOT_SETTLED", "PAYMENT_ERROR"}

(* C30: every request the seller receives is eventually answered; a        *)
(* request with an X-PAYMENT header ends in 200, 402 PAYMENT_INVALID, 402   *)
(* PAYMENT_NOT_SETTLED or 402 PAYMENT_ERROR after at most one verify call  *)
(* and one settle call, and a request without the header ends in the 402   *)
(* challenge.                                                              *)
C30_EveryRequestAnswered ==
    /\ [](\A r \in RequestIds :
            /\ Cardinality(VerifyCallsOf(r)) <= 1
            /\ Cardinality(SettleCallsOf(r)) <= 1
            /\ Answered(r) => EndsAsItMay(r))
    /\ \A n \in 1..MaxRequests :
          (Len(req) >= n) ~> (Len(req) >= n /\ Answered(n))

(* two requests have ended: one without a payment in the challenge, one    *)
(* with a payment in 402 PAYMENT_NOT_SETTLED after one verify and one      *)
(* settle call                                                             *)
C30_Witness ==
    \E r1 \in RequestIds, r2 \in RequestIds :
        /\ Answered(r1) /\ req[r1].header.kind = "absent"
        /\ req[r1].response.kind = "challenge"
        /\ Answered(r2) /\ CarriesPayment(r2)
        /\ req[r2].response.error = "PAYMENT_NOT_SETTLED"
        /\ Cardinality(VerifyCallsOf(r2)) = 1
        /\ Cardinality(SettleCallsOf(r2)) = 1

=============================================================================
